---------------------------- MODULE Spec2Model ----------------------------
(***************************************************************************)
(* A model of the OpenPGP.js core helpers: the MPI codec of util, the RSA  *)
(* big-integer operations, the Compressed Data packet and the enums        *)
(* registries.  Byte arrays are sequences of numbers 0..255, big integers  *)
(* are naturals, a thrown Error is a result whose err field names it.      *)
(***************************************************************************)
EXTENDS Integers, Sequences, FiniteSets, TLC

VARIABLES
    mpiPc, mpiBin, mpiTail, mpiOut, mpiRead,
    rsaPc, rsaKey, rsaBits, rsaIn, rsaOut, rsaArg, rsaRes, rsaWebCrypto,
    pktPc, pktAlgo, pktPackets, pktCompressed, pktWire, pktRead,
    regs, enumCall, enumRes,
    curvePc, curveArg, curve, curveRandom, keyPair,
    gcmPc, gcmIv, gcmChunkIndex, gcmRes,
    dblPc, dblData, dblRes,
    selPc, selA, selB, selRuns, selBytes, sel8,
    eolPc, eolIn, eolSplits, carryOverCR, eolOut,
    apPc, apPromises, apTime, apClock, apCalled, apJobs, apRan, apException, apResult,
    sumPc, sumText, sumI, sumS, sumOut,
    hkdfPc, hkdfAlgo, hkdfWebCrypto, hkdfRes, webCalls,
    nsPc, nsCall, nsErr, nsPaths, nsRes,
    ecPc, ecCall, ecCurve, ecErr, ecPaths, ecRes

mpiVars == <<mpiPc, mpiBin, mpiTail, mpiOut, mpiRead>>
rsaVars ==
    <<rsaPc, rsaKey, rsaBits, rsaIn, rsaOut, rsaArg, rsaRes, rsaWebCrypto>>
pktVars == <<pktPc, pktAlgo, pktPackets, pktCompressed, pktWire, pktRead>>
enumVars == <<regs, enumCall, enumRes>>
curveVars == <<curvePc, curveArg, curve, curveRandom, keyPair>>
gcmVars == <<gcmPc, gcmIv, gcmChunkIndex, gcmRes>>
dblVars == <<dblPc, dblData, dblRes>>
selVars == <<selPc, selA, selB, selRuns, selBytes, sel8>>
eolVars == <<eolPc, eolIn, eolSplits, carryOverCR, eolOut>>
anyVars == <<apPc, apPromises, apTime, apClock, apCalled, apJobs, apRan, apException, apResult>>
sumVars == <<sumPc, sumText, sumI, sumS, sumOut>>
hkdfVars == <<hkdfPc, hkdfAlgo, hkdfWebCrypto, hkdfRes, webCalls>>
nsVars == <<nsPc, nsCall, nsErr, nsPaths, nsRes>>
ecVars == <<ecPc, ecCall, ecCurve, ecErr, ecPaths, ecRes>>
\* the components added to the four above
utilVars == <<curveVars, gcmVars, dblVars, selVars, eolVars, anyVars, sumVars, hkdfVars, nsVars, ecVars>>
coreVars == <<mpiVars, rsaVars, pktVars, enumVars>>
\* what a step of the curve component leaves alone
notCurve == <<coreVars, gcmVars, dblVars, selVars, eolVars, anyVars, sumVars, hkdfVars, nsVars, ecVars>>
\* what a step of the gcm component leaves alone
notGcm == <<coreVars, curveVars, dblVars, selVars, eolVars, anyVars, sumVars, hkdfVars, nsVars, ecVars>>
\* what a step of the dbl component leaves alone
notDbl == <<coreVars, curveVars, gcmVars, selVars, eolVars, anyVars, sumVars, hkdfVars, nsVars, ecVars>>
\* what a step of the sel component leaves alone
notSel == <<coreVars, curveVars, gcmVars, dblVars, eolVars, anyVars, sumVars, hkdfVars, nsVars, ecVars>>
\* what a step of the eol component leaves alone
notEol == <<coreVars, curveVars, gcmVars, dblVars, selVars, anyVars, sumVars, hkdfVars, nsVars, ecVars>>
\* what a step of the any component leaves alone
notAny == <<coreVars, curveVars, gcmVars, dblVars, selVars, eolVars, sumVars, hkdfVars, nsVars, ecVars>>
\* what a step of the sum component leaves alone
notSum == <<coreVars, curveVars, gcmVars, dblVars, selVars, eolVars, anyVars, hkdfVars, nsVars, ecVars>>
\* what a step of the hkdf component leaves alone
notHkdf == <<coreVars, curveVars, gcmVars, dblVars, selVars, eolVars, anyVars, sumVars, nsVars, ecVars>>
\* what a step of the ns component leaves alone
notNs == <<coreVars, curveVars, gcmVars, dblVars, selVars, eolVars, anyVars, sumVars, hkdfVars, ecVars>>
\* what a step of the ec component leaves alone
notEc == <<coreVars, curveVars, gcmVars, dblVars, selVars, eolVars, anyVars, sumVars, hkdfVars, nsVars>>
vars == <<mpiVars, rsaVars, pktVars, enumVars, utilVars>>

(***************************************************************************)
(* Bounds of the model.                                                    *)
(***************************************************************************)
\* longest short byte array drawn as an input
MaxLen == 3

\* the byte values short arrays are built from: zero, one bit, top bit, all bits
ByteVals == {0, 1, 128, 255}

\* the number of values of the two-byte MPI bit-length prefix
MPIPrefixModulus == 65536

RECURSIVE Pow2(_)
Pow2(k) == IF k = 0 THEN 1 ELSE 2 * Pow2(k - 1)

Max(a, b) == IF a >= b THEN a ELSE b
Min(a, b) == IF a <= b THEN a ELSE b

\* Uint8Array.prototype.subarray(begin, end) with 0-based, clamped indices
subarray(bytes, begin, end) ==
    LET b == Min(Max(begin, 0), Len(bytes))
        e == Min(Max(end, 0), Len(bytes))
    IN  IF e <= b THEN <<>> ELSE SubSeq(bytes, b + 1, e)

\* bytes[i] (0-based) inside a bitwise expression: undefined coerces to 0
ByteAt(bytes, i) == IF i >= 0 /\ i < Len(bytes) THEN bytes[i + 1] ELSE 0

Ok(v) == [err |-> "none", val |-> v]
Err(msg) == [err |-> msg, val |-> <<>>]

(***************************************************************************)
(* util: the MPI codec.                                                    *)
(***************************************************************************)
\* util.nbits: bit length of the integer x (1 for x = 0)
nbits(x) ==
    LET t1 == x \div 65536
        x1 == IF t1 # 0 THEN t1 ELSE x
        r1 == IF t1 # 0 THEN 17 ELSE 1
        t2 == x1 \div 256
        x2 == IF t2 # 0 THEN t2 ELSE x1
        r2 == IF t2 # 0 THEN r1 + 8 ELSE r1
        t3 == x2 \div 16
        x3 == IF t3 # 0 THEN t3 ELSE x2
        r3 == IF t3 # 0 THEN r2 + 4 ELSE r2
        t4 == x3 \div 4
        x4 == IF t4 # 0 THEN t4 ELSE x3
        r4 == IF t4 # 0 THEN r3 + 2 ELSE r3
        t5 == x4 \div 2
    IN  IF t5 # 0 THEN r4 + 1 ELSE r4

\* the loop of util.uint8ArrayBitLength: index of the leading non-zero byte
RECURSIVE leadingNonZero(_, _)
leadingNonZero(bin, i) ==
    IF i < Len(bin) /\ bin[i + 1] = 0 THEN leadingNonZero(bin, i + 1) ELSE i

\* util.uint8ArrayBitLength
uint8ArrayBitLength(bin) ==
    LET i == leadingNonZero(bin, 0)
    IN  IF i = Len(bin) THEN 0
        ELSE LET stripped == subarray(bin, i, Len(bin))
             IN  (Len(stripped) - 1) * 8 + nbits(stripped[1])

\* util.uint8ArrayToMPI without its zero check
uint8ArrayToMPI_NoZeroCheck(bin) ==
    LET bitSize == uint8ArrayBitLength(bin)
        stripped == subarray(bin, Len(bin) - ((bitSize + 7) \div 8), Len(bin))
        prefix == <<(bitSize \div 256) % 256, bitSize % 256>>
    IN  Ok(prefix \o stripped)

\* util.uint8ArrayToMPI: the prefix keeps the low 16 bits of the bit length
uint8ArrayToMPI(bin) ==
    LET bitSize == uint8ArrayBitLength(bin)
        stripped == subarray(bin, Len(bin) - ((bitSize + 7) \div 8), Len(bin))
        prefix == <<(bitSize \div 256) % 256, bitSize % 256>>
    IN  IF bitSize = 0 THEN Err("Zero MPI") ELSE Ok(prefix \o stripped)

\* util.readMPI: never throws, the payload is cut at the end of the input
readMPI(bytes) ==
    LET bits == ByteAt(bytes, 0) * 256 + ByteAt(bytes, 1)
        bytelen == (bits + 7) \div 8
    IN  Ok(subarray(bytes, 2, 2 + bytelen))

\* byte arrays of length 0..n over ByteVals
ByteArrays(n) == UNION {[1..k -> ByteVals] : k \in 0..n}

\* arrays around the capacity of the 16-bit prefix: 8191 and 8192 bytes
LongArrays ==
    {[i \in 1..L |-> IF i = 1 THEN f ELSE 0] :
        f \in {1, 128, 255},
        L \in {MPIPrefixModulus \div 8 - 1, MPIPrefixModulus \div 8}}

MPIInputs == ByteArrays(MaxLen) \cup LongArrays
MPITails == {<<>>, <<0>>, <<255, 1>>}

NoResult == [err |-> "unset", val |-> <<>>]

InitMPI ==
    /\ mpiPc = "init"
    /\ mpiBin \in MPIInputs
    /\ mpiTail \in MPITails
    /\ mpiOut = NoResult
    /\ mpiRead = NoResult

IdleMPI ==
    /\ mpiPc = "idle"
    /\ mpiBin = <<>>
    /\ mpiTail = <<>>
    /\ mpiOut = NoResult
    /\ mpiRead = NoResult

\* a caller serializes the integer held in mpiBin
WriteMPI ==
    /\ mpiPc = "init"
    /\ mpiOut' = uint8ArrayToMPI(mpiBin)
    /\ mpiPc' = "written"
    /\ UNCHANGED <<mpiBin, mpiTail, mpiRead>>
    /\ UNCHANGED <<rsaVars, pktVars, enumVars, utilVars>>

\* a parser reads the MPI back from the written bytes and what follows them
ReadWrittenMPI ==
    /\ mpiPc = "written"
    /\ mpiOut.err = "none"
    /\ mpiRead' = readMPI(mpiOut.val \o mpiTail)
    /\ mpiPc' = "read"
    /\ UNCHANGED <<mpiBin, mpiTail, mpiOut>>
    /\ UNCHANGED <<rsaVars, pktVars, enumVars, utilVars>>

\* a parser reads an MPI from wire bytes: mpiBin taken as encoded input
ParseMPI ==
    /\ mpiPc = "init"
    /\ mpiRead' = readMPI(mpiBin)
    /\ mpiPc' = "parsed"
    /\ UNCHANGED <<mpiBin, mpiTail, mpiOut>>
    /\ UNCHANGED <<rsaVars, pktVars, enumVars, utilVars>>


(***************************************************************************)
(* Big integers.  The BigInteger class wraps the host's integers; its      *)
(* operations are the arithmetic of the naturals.                          *)
(***************************************************************************)
\* largest prime factor candidate and largest exponent of a loaded key
MaxP == 7
MaxE == 7
\* largest digest / padded message value handed to the RSA operations
MaxMsg == 16
\* modulus sizes asked of rsa.generate
MinBits == 4
MaxBits == 8

RECURSIVE bitLength(_)
\* BigInteger.bitLength: right shifts by one until zero, counted from 1
bitLength(x) == IF x < 2 THEN 1 ELSE 1 + bitLength(x \div 2)

RECURSIVE byteLength(_)
\* BigInteger.byteLength: right shifts by eight until zero, counted from 1
byteLength(x) == IF x < 256 THEN 1 ELSE 1 + byteLength(x \div 256)

RECURSIVE gcd(_, _)
\* BigInteger.gcd
gcd(a, b) == IF b = 0 THEN a ELSE gcd(b, a % b)

RECURSIVE modExp(_, _, _)
\* BigInteger.modExp: b ** e mod n by square and multiply
modExp(b, e, n) ==
    IF n = 1 THEN 0
    ELSE IF e = 0 THEN 1
    ELSE LET h == modExp(b, e \div 2, n)
             sq == (h * h) % n
         IN  IF e % 2 = 1 THEN (sq * (b % n)) % n ELSE sq

NumOk(x) == [err |-> "none", val |-> x]
NumErr(msg) == [err |-> msg, val |-> 0]
BoolOk(b) == [err |-> "none", val |-> b]
BoolErr(msg) == [err |-> msg, val |-> FALSE]

\* BigInteger.modInv: the inverse exists only for an operand coprime to n
modInv(a, n) ==
    IF n = 0 \/ gcd(a, n) # 1 THEN NumErr("Inverse does not exist")
    ELSE NumOk(CHOOSE x \in 0..(n - 1) : (a * x) % n = 1 % n)

RECURSIVE rawBytes(_)
\* the big-endian bytes of x without leading zero bytes (one byte for 0)
rawBytes(x) == IF x < 256 THEN <<x>> ELSE Append(rawBytes(x \div 256), x % 256)

\* the zero bytes BigInteger.toUint8Array puts before the value's bytes
padTo(bytes, length) ==
    [i \in 1..Max(length, Len(bytes)) |->
        IF i <= Max(length, Len(bytes)) - Len(bytes) THEN 0
        ELSE bytes[i - (Max(length, Len(bytes)) - Len(bytes))]]

\* BigInteger.toUint8Array('be', length)
toUint8Array(x, length) == padTo(rawBytes(x), length)

RECURSIVE fromUint8Array(_)
\* new BigInteger(bytes): the big-endian value
fromUint8Array(bytes) ==
    IF Len(bytes) = 0 THEN 0
    ELSE fromUint8Array(SubSeq(bytes, 1, Len(bytes) - 1)) * 256 + bytes[Len(bytes)]

IsPrime(x) == x >= 2 /\ \A k \in 2..(x - 1) : x % k # 0

\* randomProbablePrime(bits, e, k): a prime of exactly `bits` bits with
\* p - 1 coprime to e
randomProbablePrime(bits, e) ==
    {x \in Pow2(bits - 1)..(Pow2(bits) - 1) : IsPrime(x) /\ gcd(x - 1, e) = 1}

\* getRandomBigInteger(min, max): the values it can return, min <= r < max
getRandomBigInteger(min, max) == min..(max - 1)

\* emsaEncode(hashAlgo, hashed, emLen): the encoded message is an injective
\* image of the digest, emLen bytes long
emsaEncode(hashAlgo, hashed, emLen) == padTo(rawBytes(hashed), emLen)

(***************************************************************************)
(* rsa.validateParams, with the blinding value r it drew (NoDraw when the  *)
(* range [2, 2 << floor(bitLength(n) / 3)) is empty).                      *)
(***************************************************************************)
NoDraw == -1

\* the values of r validateParams can draw for a modulus n
blindingDraws(n) ==
    LET range == getRandomBigInteger(2, 2 * Pow2(bitLength(n) \div 3))
    IN  IF range = {} THEN {NoDraw} ELSE range

validateParams(n, e, d, p, q, u, r) ==
    IF p * q # n THEN BoolOk(FALSE)
    ELSE IF q = 0 THEN BoolErr("Division by zero")
    ELSE IF (p * u) % q # 1 THEN BoolOk(FALSE)
    ELSE IF r = NoDraw THEN BoolErr("Illegal parameter value: max <= min")
    ELSE LET rde == r * d * e
         IN  IF p - 1 = 0 THEN BoolErr("Division by zero")
             ELSE IF rde % (p - 1) # r THEN BoolOk(FALSE)
             ELSE IF q - 1 = 0 THEN BoolErr("Division by zero")
             ELSE IF rde % (q - 1) # r THEN BoolOk(FALSE)
             ELSE BoolOk(TRUE)

(***************************************************************************)
(* bnSign, bnVerify, bnEncrypt, bnDecrypt.                                 *)
(***************************************************************************)
\* bnSign: the signature bytes, byteLength(n) long
bnSign(hashAlgo, n, d, hashed) ==
    LET m == fromUint8Array(emsaEncode(hashAlgo, hashed, byteLength(n)))
    IN  IF m >= n THEN Err("Message size cannot exceed modulus size")
        ELSE Ok(toUint8Array(modExp(m, d, n), byteLength(n)))

\* bnVerify comparing the signature itself, not its e-th power
bnVerify_NoExp(hashAlgo, s, n, e, hashed) ==
    LET sv == fromUint8Array(s)
    IN  IF sv >= n THEN BoolErr("Signature size cannot exceed modulus size")
        ELSE BoolOk(toUint8Array(sv, byteLength(n))
                     = emsaEncode(hashAlgo, hashed, byteLength(n)))

\* bnVerify answering false, not throwing, for a signature not below n
bnVerify_FalseWhenLarge(hashAlgo, s, n, e, hashed) ==
    LET sv == fromUint8Array(s)
    IN  IF sv >= n THEN BoolOk(FALSE)
        ELSE LET EM1 == toUint8Array(modExp(sv, e, n), byteLength(n))
                 EM2 == emsaEncode(hashAlgo, hashed, byteLength(n))
             IN  BoolOk(EM1 = EM2)

\* bnVerify
bnVerify(hashAlgo, s, n, e, hashed) ==
    LET sv == fromUint8Array(s)
    IN  IF sv >= n THEN BoolErr("Signature size cannot exceed modulus size")
        ELSE LET EM1 == toUint8Array(modExp(sv, e, n), byteLength(n))
                 EM2 == emsaEncode(hashAlgo, hashed, byteLength(n))
             IN  BoolOk(EM1 = EM2)

\* bnEncrypt on the EME-encoded message `padded` (emeEncode pads at random)
bnEncrypt(padded, n, e) ==
    LET data == fromUint8Array(padded)
    IN  IF data >= n THEN Err("Message size cannot exceed modulus size")
        ELSE Ok(toUint8Array(modExp(data, e, n), byteLength(n)))

\* bnDecrypt up to the bytes it hands to emeDecode, with the unblinder r it
\* drew; crt is the recombined value h * p + mp
bnDecrypt(data, n, e, d, p, q, u, r) ==
    LET c == fromUint8Array(data)
    IN  IF c >= n THEN [err |-> "Data too large.", val |-> <<>>, crt |-> 0]
        ELSE IF q - 1 = 0 \/ p - 1 = 0
        THEN [err |-> "Division by zero", val |-> <<>>, crt |-> 0]
        ELSE
        LET dq == d % (q - 1)
            dp == d % (p - 1)
            unblinder == r % n
            inv == modInv(unblinder, n)
        IN  IF inv.err # "none" THEN [err |-> inv.err, val |-> <<>>, crt |-> 0]
            ELSE
            LET blinder == modExp(inv.val, e, n)
                blinded == (c * blinder) % n
                mp == modExp(blinded, dp, p)
                mq == modExp(blinded, dq, q)
                h == (u * (mq - mp)) % q
                result == h * p + mp
            IN  [err |-> "none",
                 val |-> toUint8Array((result * unblinder) % n, byteLength(n)),
                 crt |-> result]

(***************************************************************************)
(* rsa.generate, big-integer path: one draw of the retry loop, and what    *)
(* follows the loop.                                                       *)
(***************************************************************************)
NoKey == [n |-> 0, e |-> 0, d |-> 0, p |-> 0, q |-> 0, u |-> 0]

\* the loop condition of generate: n.bitLength() !== bits
generateRetry(p, q, bits) == bitLength(p * q) # bits

\* the code after the loop: phi, the swap to p < q, d and u
generateFinish(p0, q0, e) ==
    LET n == p0 * q0
        phi == (p0 - 1) * (q0 - 1)
        p == IF q0 < p0 THEN q0 ELSE p0
        q == IF q0 < p0 THEN p0 ELSE q0
        d == modInv(e, phi)
        u == modInv(p, q)
    IN  IF d.err # "none" THEN [err |-> d.err, key |-> NoKey]
        ELSE IF u.err # "none" THEN [err |-> u.err, key |-> NoKey]
        ELSE [err |-> "none",
              key |-> [n |-> n, e |-> e, d |-> d.val, p |-> p, q |-> q,
                       u |-> u.val]]

(***************************************************************************)
(* rsa.generate, native path.  webCrypto.generateKey and exportKey are the *)
(* host's: the exported JWK holds two distinct primes p, q whose product   *)
(* has modulusLength bits, a private exponent d with d*e = 1 modulo        *)
(* lcm(p-1, q-1) and qi = q^-1 mod p (RFC 3447, RFC 7518); or the call     *)
(* rejects.                                                                *)
(***************************************************************************)
webGenerateKey(bits, e) ==
    LET lcm(a, b) == (a * b) \div gcd(a, b)
        halves == {bits \div 2, bits - (bits \div 2)}
        primes == UNION {randomProbablePrime(h, e) : h \in halves}
    IN  UNION {
          {[n |-> p * q, d |-> d, p |-> p, q |-> q, qi |-> modInv(q, p).val] :
              d \in {x \in 1..(p * q - 1) :
                        (x * e) % lcm(p - 1, q - 1) = 1 % lcm(p - 1, q - 1)}} :
          <<p, q>> \in {pq \in primes \X primes :
                          /\ pq[1] # pq[2]
                          /\ bitLength(pq[1] * pq[2]) = bits}}

\* the rejections of generateKey and exportKey
WebGenerateErrors == {"OperationError", "NotSupportedError"}

\* the object returned by the native branch: p and q are switched, u is
\* jwk.qi
generateNative(jwk, e) ==
    [n |-> jwk.n, e |-> e, d |-> jwk.d, p |-> jwk.q, q |-> jwk.p,
     u |-> jwk.qi]

(***************************************************************************)
(* The RSA operations as steps of a caller.                                *)
(***************************************************************************)
\* enums.hash.sha256
Sha256 == 8

\* public exponents asked of rsa.generate
GenExps == {3, 5, 7}

NoArg == [s |-> <<>>, hashed |-> 0, r |-> 0]
NoBool == [err |-> "unset", val |-> FALSE]

\* the relations of a consistent key, as the validation rule states them
Congruent(a, b, m) == m >= 1 /\ (a - b) % m = 0
KeyRelations(k) ==
    /\ k.p * k.q = k.n
    /\ Congruent(k.p * k.u, 1, k.q)
    /\ Congruent(k.d * k.e, 1, k.p - 1)
    /\ Congruent(k.d * k.e, 1, k.q - 1)

\* keys of two distinct odd primes that satisfy the relations
ValidKeys ==
    {k \in {[n |-> p * q, e |-> e, d |-> d, p |-> p, q |-> q, u |-> u] :
                p \in 3..MaxP, q \in 3..MaxP, e \in 1..MaxE, d \in 1..MaxE,
                u \in 1..MaxP} :
        /\ IsPrime(k.p) /\ IsPrime(k.q) /\ k.p # k.q
        /\ k.u < k.q
        /\ KeyRelations(k)}

IdleRSA ==
    /\ rsaPc = "idle"
    /\ rsaKey = NoKey
    /\ rsaBits = 0
    /\ rsaIn = 0
    /\ rsaOut = NoResult
    /\ rsaArg = NoArg
    /\ rsaRes = NoBool
    /\ rsaWebCrypto = FALSE

\* before a key exists: it is generated, or read from a key packet; the
\* host has WebCrypto (util.getWebCrypto() is an object) or has not
InitRSAKey ==
    /\ rsaPc = "start"
    /\ rsaKey = NoKey
    /\ rsaBits = 0
    /\ rsaIn = 0
    /\ rsaOut = NoResult
    /\ rsaArg = NoArg
    /\ rsaRes = NoBool
    /\ rsaWebCrypto \in BOOLEAN

\* a consistent key with a modulus of two bytes: n = 17 * 19
WideKeys == {[n |-> 323, e |-> 5, d |-> 173, p |-> 17, q |-> 19, u |-> 9]}

\* a consistent key is in use
InitRSACrypt ==
    /\ rsaPc = "key"
    /\ rsaKey \in ValidKeys \cup WideKeys
    /\ rsaBits = 0
    /\ rsaIn = 0
    /\ rsaOut = NoResult
    /\ rsaArg = NoArg
    /\ rsaRes = NoBool
    /\ rsaWebCrypto = FALSE

\* key material of any content arrives from a parsed key packet
LoadKey ==
    /\ rsaPc = "start"
    /\ \E p \in 1..MaxP, q \in 1..MaxP, dn \in 0..1, e \in 1..MaxE,
          d \in 1..MaxE, u \in 0..MaxP :
          rsaKey' = [n |-> p * q + dn, e |-> e, d |-> d, p |-> p, q |-> q,
                     u |-> u]
    /\ rsaPc' = "key"
    /\ UNCHANGED <<rsaBits, rsaWebCrypto, rsaIn, rsaOut, rsaArg, rsaRes>>
    /\ UNCHANGED <<mpiVars, pktVars, enumVars, utilVars>>

\* rsa.generate(bits, e) is called: with WebCrypto it awaits
\* webCrypto.generateKey, without it enters the retry loop
GenerateStart ==
    /\ rsaPc = "start"
    /\ \E bits \in MinBits..MaxBits, e \in GenExps :
          /\ rsaBits' = bits
          /\ rsaIn' = e
    /\ rsaPc' = IF rsaWebCrypto THEN "gen_native" ELSE "gen_loop"
    /\ UNCHANGED <<rsaKey, rsaOut, rsaArg, rsaRes, rsaWebCrypto>>
    /\ UNCHANGED <<mpiVars, pktVars, enumVars, utilVars>>

\* generateKey and exportKey fulfil: the JWK is mapped to the OpenPGP
\* names, p and q switched, and returned without the retry loop
GenerateNativeReturns ==
    /\ rsaPc = "gen_native"
    /\ \E jwk \in webGenerateKey(rsaBits, rsaIn) :
          rsaKey' = generateNative(jwk, rsaIn)
    /\ rsaPc' = "key"
    /\ UNCHANGED <<rsaBits, rsaWebCrypto, rsaIn, rsaOut, rsaArg, rsaRes>>
    /\ UNCHANGED <<mpiVars, pktVars, enumVars, utilVars>>

\* generateKey or exportKey rejects: generate rejects with that error
GenerateNativeThrows ==
    /\ rsaPc = "gen_native"
    /\ \E err \in WebGenerateErrors : rsaRes' = BoolErr(err)
    /\ rsaPc' = "gen_error"
    /\ UNCHANGED <<rsaKey, rsaBits, rsaWebCrypto, rsaIn, rsaOut, rsaArg>>
    /\ UNCHANGED <<mpiVars, pktVars, enumVars, utilVars>>

\* one iteration of the loop: q, then p, are drawn and n = p * q is tested
GenerateDraw ==
    /\ rsaPc = "gen_loop"
    /\ \E q \in randomProbablePrime(rsaBits - (rsaBits \div 2), rsaIn),
          p \in randomProbablePrime(rsaBits \div 2, rsaIn) :
          /\ rsaKey' = [NoKey EXCEPT !.p = p, !.q = q, !.n = p * q]
          /\ rsaPc' = IF generateRetry(p, q, rsaBits) THEN "gen_loop"
                      ELSE "gen_exit"
    /\ UNCHANGED <<rsaBits, rsaWebCrypto, rsaIn, rsaOut, rsaArg, rsaRes>>
    /\ UNCHANGED <<mpiVars, pktVars, enumVars, utilVars>>

\* after the loop: the key is returned, or modInv throws
GenerateFinish ==
    /\ rsaPc = "gen_exit"
    /\ LET g == generateFinish(rsaKey.p, rsaKey.q, rsaIn)
       IN  IF g.err = "none"
           THEN /\ rsaKey' = g.key
                /\ rsaPc' = "key"
                /\ UNCHANGED rsaRes
           ELSE /\ rsaRes' = BoolErr(g.err)
                /\ rsaPc' = "gen_error"
                /\ UNCHANGED rsaKey
    /\ UNCHANGED <<rsaBits, rsaWebCrypto, rsaIn, rsaOut, rsaArg>>
    /\ UNCHANGED <<mpiVars, pktVars, enumVars, utilVars>>

\* rsa.validateParams on the current key, drawing r
ValidateParams ==
    /\ rsaPc = "key"
    /\ \E r \in blindingDraws(rsaKey.n) :
          /\ rsaArg' = [NoArg EXCEPT !.r = r]
          /\ rsaRes' = validateParams(rsaKey.n, rsaKey.e, rsaKey.d, rsaKey.p,
                                      rsaKey.q, rsaKey.u, r)
    /\ rsaPc' = "validated"
    /\ UNCHANGED <<rsaKey, rsaBits, rsaWebCrypto, rsaIn, rsaOut>>
    /\ UNCHANGED <<mpiVars, pktVars, enumVars, utilVars>>

\* the values of the unblinder bnDecrypt can draw for a modulus n (NoDraw
\* when the range [2, n) is empty and nothing is drawn)
unblinderDraws(n) ==
    LET range == getRandomBigInteger(2, n)
    IN  IF range = {} THEN {NoDraw} ELSE range

\* bnSign on a digest
Sign ==
    /\ rsaPc = "key"
    /\ \E hashed \in 0..MaxMsg :
          /\ rsaIn' = hashed
          /\ rsaOut' = bnSign(Sha256, rsaKey.n, rsaKey.d, hashed)
    /\ rsaPc' = "signed"
    /\ UNCHANGED <<rsaKey, rsaBits, rsaWebCrypto, rsaArg, rsaRes>>
    /\ UNCHANGED <<mpiVars, pktVars, enumVars, utilVars>>

\* bnVerify of any signature value up to n against any digest
Verify ==
    /\ rsaPc = "signed"
    /\ \E sv \in 0..rsaKey.n, hashed \in 0..MaxMsg :
          LET s == toUint8Array(sv, byteLength(rsaKey.n))
          IN  /\ rsaArg' = [NoArg EXCEPT !.s = s, !.hashed = hashed]
              /\ rsaRes' = bnVerify(Sha256, s, rsaKey.n, rsaKey.e, hashed)
    /\ rsaPc' = "verified"
    /\ UNCHANGED <<rsaKey, rsaBits, rsaWebCrypto, rsaIn, rsaOut>>
    /\ UNCHANGED <<mpiVars, pktVars, enumVars, utilVars>>

\* bnEncrypt of a padded message of any value up to n
Encrypt ==
    /\ rsaPc = "key"
    /\ \E m \in 0..rsaKey.n :
          /\ rsaIn' = m
          /\ rsaOut' = bnEncrypt(toUint8Array(m, byteLength(rsaKey.n)),
                                 rsaKey.n, rsaKey.e)
    /\ rsaPc' = "encrypted"
    /\ UNCHANGED <<rsaKey, rsaBits, rsaWebCrypto, rsaArg, rsaRes>>
    /\ UNCHANGED <<mpiVars, pktVars, enumVars, utilVars>>

\* bnDecrypt of the ciphertext, drawing the unblinder r in [2, n); for a
\* modulus with an empty range bnDecrypt has thrown before it draws
Decrypt ==
    /\ rsaPc = "encrypted"
    /\ rsaOut.err = "none"
    /\ \E r \in unblinderDraws(rsaKey.n) :
          /\ rsaArg' = [NoArg EXCEPT !.r = r]
          /\ rsaRes' = bnDecrypt(rsaOut.val, rsaKey.n, rsaKey.e, rsaKey.d,
                                 rsaKey.p, rsaKey.q, rsaKey.u, r)
    /\ rsaPc' = "decrypted"
    /\ UNCHANGED <<rsaKey, rsaBits, rsaWebCrypto, rsaIn, rsaOut>>
    /\ UNCHANGED <<mpiVars, pktVars, enumVars, utilVars>>

\* bnDecrypt of a ciphertext of any value up to n, as read from a packet
DecryptReceived ==
    /\ rsaPc = "key"
    /\ \E c \in 0..rsaKey.n, r \in unblinderDraws(rsaKey.n) :
          /\ rsaIn' = c
          /\ rsaArg' = [NoArg EXCEPT !.r = r]
          /\ rsaRes' = bnDecrypt(toUint8Array(c, byteLength(rsaKey.n)),
                                 rsaKey.n, rsaKey.e, rsaKey.d,
                                 rsaKey.p, rsaKey.q, rsaKey.u, r)
    /\ rsaPc' = "received"
    /\ UNCHANGED <<rsaKey, rsaBits, rsaWebCrypto, rsaOut>>
    /\ UNCHANGED <<mpiVars, pktVars, enumVars, utilVars>>

(***************************************************************************)
(* enums: the registries and enums.read / enums.write.  A registry object  *)
(* is its entries in declaration order plus the byValue property that      *)
(* enums.read attaches under a Symbol key.                                 *)
(***************************************************************************)
Entry(n, v) == [name |-> n, value |-> v]

\* the registries as declared
enums ==
    [s2k |-> <<Entry("simple", 0), Entry("salted", 1), Entry("iterated", 3),
               Entry("gnu", 101)>>,
     publicKey |-> <<Entry("rsaEncryptSign", 1), Entry("rsaEncrypt", 2),
                     Entry("rsaSign", 3), Entry("elgamal", 16),
                     Entry("dsa", 17), Entry("ecdh", 18), Entry("ecdsa", 19),
                     Entry("eddsaLegacy", 22), Entry("ed25519Legacy", 22),
                     Entry("eddsa", 22), Entry("aedh", 23),
                     Entry("aedsa", 24), Entry("x25519", 25),
                     Entry("x448", 26), Entry("ed25519", 27),
                     Entry("ed448", 28)>>,
     symmetric |-> <<Entry("plaintext", 0), Entry("idea", 1),
                     Entry("tripledes", 2), Entry("cast5", 3),
                     Entry("blowfish", 4), Entry("aes128", 7),
                     Entry("aes192", 8), Entry("aes256", 9),
                     Entry("twofish", 10)>>,
     compression |-> <<Entry("uncompressed", 0), Entry("zip", 1),
                       Entry("zlib", 2), Entry("bzip2", 3)>>,
     hash |-> <<Entry("md5", 1), Entry("sha1", 2), Entry("ripemd", 3),
                Entry("sha256", 8), Entry("sha384", 9), Entry("sha512", 10),
                Entry("sha224", 11)>>,
     webHash |-> <<Entry("SHA-1", 2), Entry("SHA-256", 8),
                   Entry("SHA-384", 9), Entry("SHA-512", 10)>>,
     aead |-> <<Entry("eax", 1), Entry("ocb", 2),
                Entry("experimentalGCM", 100)>>]

EnumTypes == DOMAIN enums

\* a registry object before any call: no byValue property
NoByValue == [built |-> FALSE, map |-> {}]
InitRegs == [t \in EnumTypes |-> [entries |-> enums[t], byValue |-> NoByValue]]

RECURSIVE byValueOf_FirstWins(_, _, _)
\* the forEach keeping the name entered first for a value
byValueOf_FirstWins(entries, i, acc) ==
    IF i > Len(entries) THEN acc
    ELSE byValueOf_FirstWins(entries, i + 1,
             IF \E pr \in acc : pr[1] = entries[i].value THEN acc
             ELSE acc \cup {<<entries[i].value, entries[i].name>>})

RECURSIVE byValueOf(_, _, _)
\* the forEach of enums.read: type[byValue][value] = key, in entry order
byValueOf(entries, i, acc) ==
    IF i > Len(entries) THEN acc
    ELSE byValueOf(entries, i + 1,
             {pr \in acc : pr[1] # entries[i].value}
                 \cup {<<entries[i].value, entries[i].name>>})

\* the properties every object literal inherits from Object.prototype: a
\* lookup of one of these names gives a function (an object for __proto__),
\* never undefined
ObjectPrototype ==
    {"constructor", "hasOwnProperty", "isPrototypeOf", "propertyIsEnumerable",
     "toLocaleString", "toString", "valueOf", "__proto__",
     "__defineGetter__", "__defineSetter__", "__lookupGetter__",
     "__lookupSetter__"}

\* outcomes of enums.read and enums.write: the name and number of a declared
\* entry, the inherited member looked up by its name, or the Error thrown
EnumOk(n, v) == [err |-> "none", name |-> n, num |-> v, inherited |-> FALSE]
EnumInherited(n) ==
    [err |-> "none", name |-> n, num |-> -1, inherited |-> TRUE]
EnumErr ==
    [err |-> "Invalid enum value.", name |-> "", num |-> -1,
     inherited |-> FALSE]
NoEnumRes == [err |-> "unset", name |-> "", num |-> -1, inherited |-> FALSE]

\* enums.read keeping its index under the string key "byValue"
enumsRead_StringKey(rs, t, e) ==
    LET built == \E i \in 1..Len(rs[t].entries) :
                     rs[t].entries[i].name = "byValue"
        map == byValueOf(rs[t].entries, 1, {})
        after == IF built THEN rs
                 ELSE [rs EXCEPT ![t].entries =
                                     Append(@, Entry("byValue", Len(@)))]
    IN  [regs |-> after,
         res |-> IF \E pr \in map : pr[1] = e
                 THEN EnumOk((CHOOSE pr \in map : pr[1] = e)[2], e)
                 ELSE EnumErr]

\* enums.read(type, e): the registries after the call, and its outcome
enumsRead(rs, t, e) ==
    LET map == IF rs[t].byValue.built THEN rs[t].byValue.map
               ELSE byValueOf(rs[t].entries, 1, {})
        after == [rs EXCEPT ![t].byValue = [built |-> TRUE, map |-> map]]
    IN  [regs |-> after,
         res |-> IF \E pr \in map : pr[1] = e
                 THEN EnumOk((CHOOSE pr \in map : pr[1] = e)[2], e)
                 ELSE EnumErr]

\* the property lookup answering with the position of the name in its registry
enumsLookup_Position(rs, t, n) ==
    IF \E i \in 1..Len(rs[t].entries) : rs[t].entries[i].name = n
    THEN LET i == CHOOSE i \in 1..Len(rs[t].entries) :
                      rs[t].entries[i].name = n
         IN  EnumOk(n, i)
    ELSE EnumErr

\* type[e] !== undefined ? type[e] : throw: the property lookup of
\* enums.write finds the declared entries and, along the prototype chain,
\* the members of Object.prototype
enumsLookup(rs, t, n) ==
    IF \E i \in 1..Len(rs[t].entries) : rs[t].entries[i].name = n
    THEN LET i == CHOOSE i \in 1..Len(rs[t].entries) :
                      rs[t].entries[i].name = n
         IN  EnumOk(n, rs[t].entries[i].value)
    ELSE IF n \in ObjectPrototype THEN EnumInherited(n)
    ELSE EnumErr

\* enums.write(type, e) for a string e
enumsWriteName(rs, t, n) == [regs |-> rs, res |-> enumsLookup(rs, t, n)]

\* enums.write(type, e) for a number e: read, then look the name up
enumsWriteNumber(rs, t, e) ==
    LET rd == enumsRead(rs, t, e)
    IN  IF rd.res.err # "none" THEN rd
        ELSE [regs |-> rd.regs, res |-> enumsLookup(rd.regs, t, rd.res.name)]

\* numbers and names handed to the registries by callers
EnumNumbers == {0, 1, 2, 3, 8, 22, 100, 255}
EnumNames ==
    {"zip", "sha256", "eddsa", "eddsaLegacy", "SHA-1", "gnu", "nope",
     "toString", "constructor"}

NoCall == [fn |-> "none", type |-> "", num |-> -1, name |-> ""]

InitEnums ==
    /\ regs = InitRegs
    /\ enumCall = NoCall
    /\ enumRes = NoEnumRes

EnumRead ==
    /\ \E t \in EnumTypes, e \in EnumNumbers :
           LET r == enumsRead(regs, t, e)
           IN  /\ regs' = r.regs
               /\ enumRes' = r.res
               /\ enumCall' = [fn |-> "read", type |-> t, num |-> e, name |-> ""]
    /\ UNCHANGED <<mpiVars, rsaVars, pktVars, utilVars>>

EnumWriteNumber ==
    /\ \E t \in EnumTypes, e \in EnumNumbers :
           LET r == enumsWriteNumber(regs, t, e)
           IN  /\ regs' = r.regs
               /\ enumRes' = r.res
               /\ enumCall' = [fn |-> "write", type |-> t, num |-> e, name |-> ""]
    /\ UNCHANGED <<mpiVars, rsaVars, pktVars, utilVars>>

EnumWriteName ==
    /\ \E t \in EnumTypes, n \in EnumNames :
           LET r == enumsWriteName(regs, t, n)
           IN  /\ regs' = r.regs
               /\ enumRes' = r.res
               /\ enumCall' = [fn |-> "write", type |-> t, num |-> -1, name |-> n]
    /\ UNCHANGED <<mpiVars, rsaVars, pktVars, utilVars>>

(***************************************************************************)
(* The Compressed Data packet.                                             *)
(***************************************************************************)
\* most packets in the list a Compressed Data packet is built with
MaxPackets == 2

\* enums.packet tags of the packets a Compressed Data packet may contain
TagSignature == 2
TagOnePassSignature == 4
TagLiteralData == 11
allowedPackets == {TagLiteralData, TagOnePassSignature, TagSignature}

\* values config.preferredCompressionAlgorithm is set to: the registry's
\* IDs and one unknown ID
AlgoIds == 0..4
PacketBodies == {<<>>, <<7>>}
Packets == [tag : allowedPackets, body : PacketBodies]
PacketLists == UNION {[1..k -> Packets] : k \in 0..MaxPackets}

RECURSIVE packetListWrite(_)
\* PacketList.write: each packet as header octet, length octet, body
packetListWrite(list) ==
    IF Len(list) = 0 THEN <<>>
    ELSE <<192 + Head(list).tag, Len(Head(list).body)>> \o Head(list).body
             \o packetListWrite(Tail(list))

RECURSIVE packetListFromBinary(_, _)
\* PacketList.fromBinary(bytes, allowed): the packets, or a parse error
packetListFromBinary(bytes, allowed) ==
    IF Len(bytes) = 0 THEN Ok(<<>>)
    ELSE IF Len(bytes) < 2 \/ bytes[1] < 192 \/ Len(bytes) < 2 + bytes[2]
    THEN Err("Error during parsing")
    ELSE IF bytes[1] - 192 \notin allowed
    THEN Err("Packet not allowed in this context")
    ELSE LET rest == packetListFromBinary(
                         subarray(bytes, 2 + bytes[2], Len(bytes)), allowed)
         IN  IF rest.err # "none" THEN rest
             ELSE Ok(<<[tag |-> bytes[1] - 192,
                        body |-> subarray(bytes, 2, 2 + bytes[2])]>>
                         \o rest.val)

\* the stream header of the Deflate / Inflate object: none for raw deflate
zHeader(raw) == IF raw THEN <<>> ELSE <<120>>

\* Deflate.push(value, Z_SYNC_FLUSH): the data as one block that is not final
deflateSync(value) == <<0, Len(value)>> \o value

\* Deflate.push([], Z_FINISH): the empty final block
deflateFinish == <<1, 0>>

RECURSIVE inflateBlocks(_)
\* Inflate over the blocks of a stream, to its final block
inflateBlocks(bytes) ==
    IF Len(bytes) < 2 \/ bytes[1] \notin {0, 1} \/ Len(bytes) < 2 + bytes[2]
    THEN Err("invalid block")
    ELSE LET data == subarray(bytes, 2, 2 + bytes[2])
         IN  IF bytes[1] = 1 THEN Ok(data)
             ELSE LET rest == inflateBlocks(
                                  subarray(bytes, 2 + bytes[2], Len(bytes)))
                  IN  IF rest.err # "none" THEN rest
                      ELSE Ok(data \o rest.val)

\* pako_zlib(constructor, options)(data) on a byte array: what the process
\* callback returns for a non-empty value, then what the finish callback
\* returns (for Deflate only)
pako_zlib(constructor, raw, data) ==
    IF constructor = "Deflate"
    THEN Ok(zHeader(raw)
              \o (IF Len(data) > 0 THEN deflateSync(data) ELSE <<>>)
              \o deflateFinish)
    ELSE IF Len(data) = 0 THEN Err("undefined")
    ELSE IF subarray(data, 0, Len(zHeader(raw))) # zHeader(raw)
    THEN Err("incorrect header check")
    ELSE inflateBlocks(subarray(data, Len(zHeader(raw)), Len(data)))

\* bzip2(BunzipDecode): the decoder of the seek-bzip package
bzip2(data) ==
    IF Len(data) >= 2 /\ data[1] = 66 /\ data[2] = 90
    THEN Ok(subarray(data, 2, Len(data)))
    ELSE Err("Not bzip data")

\* `${compressionName} compression not supported` and its decompression twin
notSupported(name, what) == name \o " " \o what \o " not supported"

NotFound == [found |-> FALSE, out |-> Err("undefined")]

\* compress_fns extended by an entry for every registry name
compress_fns_AllNames(name, data) ==
    CASE name = "zip" -> [found |-> TRUE, out |-> pako_zlib("Deflate", TRUE, data)]
      [] name = "zlib" -> [found |-> TRUE, out |-> pako_zlib("Deflate", FALSE, data)]
      [] name = "uncompressed" -> [found |-> TRUE, out |-> Ok(data)]
      [] OTHER -> [found |-> TRUE, out |-> Ok(<<66, 90>> \o data)]

\* compress_fns[name](data): only zip and zlib have an entry
compress_fns(name, data) ==
    CASE name = "zip" -> [found |-> TRUE, out |-> pako_zlib("Deflate", TRUE, data)]
      [] name = "zlib" -> [found |-> TRUE, out |-> pako_zlib("Deflate", FALSE, data)]
      [] OTHER -> NotFound

\* decompress_fns[name](data)
decompress_fns(name, data) ==
    CASE name = "uncompressed" -> [found |-> TRUE, out |-> Ok(data)]
      [] name = "zip" -> [found |-> TRUE, out |-> pako_zlib("Inflate", TRUE, data)]
      [] name = "zlib" -> [found |-> TRUE, out |-> pako_zlib("Inflate", FALSE, data)]
      [] name = "bzip2" -> [found |-> TRUE, out |-> bzip2(data)]
      [] OTHER -> NotFound

\* CompressedDataPacket.compress: the registries after enums.read, and the
\* compressed bytes or the error thrown
compress(rs, algorithm, packets) ==
    LET rd == enumsRead(rs, "compression", algorithm)
        fn == compress_fns(rd.res.name, packetListWrite(packets))
    IN  IF rd.res.err # "none" THEN [regs |-> rd.regs, out |-> Err(rd.res.err)]
        ELSE IF ~fn.found
        THEN [regs |-> rd.regs, out |-> Err(notSupported(rd.res.name, "compression"))]
        ELSE [regs |-> rd.regs, out |-> fn.out]

\* CompressedDataPacket.decompress: the packet list, or the error thrown
decompress(rs, algorithm, compressed) ==
    LET rd == enumsRead(rs, "compression", algorithm)
        fn == decompress_fns(rd.res.name, compressed)
    IN  IF rd.res.err # "none" THEN [regs |-> rd.regs, out |-> Err(rd.res.err)]
        ELSE IF ~fn.found
        THEN [regs |-> rd.regs, out |-> Err(notSupported(rd.res.name, "decompression"))]
        ELSE IF fn.out.err # "none" THEN [regs |-> rd.regs, out |-> fn.out]
        ELSE [regs |-> rd.regs,
              out |-> packetListFromBinary(fn.out.val, allowedPackets)]

Null == [set |-> FALSE, val |-> <<>>]
Some(v) == [set |-> TRUE, val |-> v]
\* config.preferredCompressionAlgorithm of the default configuration:
\* enums.compression.uncompressed
defaultConfig ==
    [preferredCompressionAlgorithm |->
         enumsLookup(InitRegs, "compression", "uncompressed").num]

\* the packet read() is called on and the promise read() returned: pc is
\* the await the call is suspended at
NoRead ==
    [pc |-> "none", err |-> "unset", algorithm |-> -1, compressed |-> Null,
     packets |-> Null]

\* new CompressedDataPacket() just after read(bytes) was called on it
readCalled ==
    [pc |-> "readByte", err |-> "pending",
     algorithm |-> defaultConfig.preferredCompressionAlgorithm,
     compressed |-> Null, packets |-> Null]

IdlePkt ==
    /\ pktPc = "idle"
    /\ pktAlgo = -1
    /\ pktPackets = Null
    /\ pktCompressed = Null
    /\ pktWire = NoResult
    /\ pktRead = NoRead

InitPkt ==
    /\ pktPc = "start"
    /\ pktAlgo = -1
    /\ pktPackets = Null
    /\ pktCompressed = Null
    /\ pktWire = NoResult
    /\ pktRead = NoRead

\* new CompressedDataPacket(config), then the caller sets its packet list
Construct ==
    /\ pktPc = "start"
    /\ \E a \in AlgoIds, list \in PacketLists :
          /\ pktAlgo' = a
          /\ pktPackets' = Some(list)
    /\ pktCompressed' = Null
    /\ pktPc' = "built"
    /\ UNCHANGED <<pktWire, pktRead, regs>>
    /\ UNCHANGED <<mpiVars, rsaVars, enumCall, enumRes, utilVars>>

\* write(), also a second time and while a read of the written bytes is
\* suspended: compress() when nothing is compressed yet, then the algorithm
\* octet followed by the compressed bytes
Write ==
    /\ pktPc \in {"built", "written"}
    /\ IF pktCompressed.set
       THEN /\ pktWire' = Ok(<<pktAlgo>> \o pktCompressed.val)
            /\ UNCHANGED <<pktCompressed, regs>>
       ELSE LET c == compress(regs, pktAlgo, pktPackets.val)
            IN  /\ regs' = c.regs
                /\ IF c.out.err = "none"
                   THEN /\ pktCompressed' = Some(c.out.val)
                        /\ pktWire' = Ok(<<pktAlgo>> \o c.out.val)
                   ELSE /\ pktWire' = c.out
                        /\ UNCHANGED pktCompressed
    /\ pktPc' = "written"
    /\ UNCHANGED <<pktAlgo, pktPackets, pktRead>>
    /\ UNCHANGED <<mpiVars, rsaVars, enumCall, enumRes, utilVars>>

\* read(bytes) is called on a new packet with the written bytes: it
\* suspends at await reader.readByte()
Read ==
    /\ pktPc = "written"
    /\ pktWire.err = "none"
    /\ pktRead.pc = "none"
    /\ pktRead' = readCalled
    /\ UNCHANGED <<pktPc, pktAlgo, pktPackets, pktCompressed, pktWire, regs>>
    /\ UNCHANGED <<mpiVars, rsaVars, enumCall, enumRes, utilVars>>

\* payloads of Compressed Data packets made by other implementations: the
\* algorithm octet, then the packet list stored, block framed, or bzip2
ForeignWires ==
    {<<a>> \o pre \o packetListWrite(list) :
        a \in AlgoIds, pre \in {<<>>, <<66, 90>>}, list \in PacketLists}

\* read(bytes) is called on a new packet with a received payload
ReadForeign ==
    /\ pktPc = "start"
    /\ \E wire \in ForeignWires : pktWire' = Ok(wire)
    /\ pktRead' = readCalled
    /\ pktPc' = "received"
    /\ UNCHANGED <<pktAlgo, pktPackets, pktCompressed, regs>>
    /\ UNCHANGED <<mpiVars, rsaVars, enumCall, enumRes, utilVars>>

\* read resumes with the byte: this.algorithm and this.compressed are set
\* and decompress is called, which runs enums.read and suspends at await
\* PacketList.fromBinary (or has thrown)
ReadByte ==
    /\ pktRead.pc = "readByte"
    /\ LET algorithm == pktWire.val[1]
           compressed == subarray(pktWire.val, 1, Len(pktWire.val))
       IN  /\ regs' = decompress(regs, algorithm, compressed).regs
           /\ pktRead' = [pktRead EXCEPT !.pc = "decompress",
                                         !.algorithm = algorithm,
                                         !.compressed = Some(compressed)]
    /\ UNCHANGED <<pktPc, pktAlgo, pktPackets, pktCompressed, pktWire>>
    /\ UNCHANGED <<mpiVars, rsaVars, enumCall, enumRes, utilVars>>

\* decompress resumes after await PacketList.fromBinary: this.packets is
\* set while read is still suspended at await this.decompress and its
\* promise pending; or read's promise rejects with what decompress threw
ReadPackets ==
    /\ pktRead.pc = "decompress"
    /\ ~pktRead.packets.set
    /\ LET d == decompress(regs, pktRead.algorithm, pktRead.compressed.val)
       IN  pktRead' = IF d.out.err = "none"
                      THEN [pktRead EXCEPT !.packets = Some(d.out.val)]
                      ELSE [pktRead EXCEPT !.pc = "done", !.err = d.out.err]
    /\ UNCHANGED <<pktPc, pktAlgo, pktPackets, pktCompressed, pktWire, regs>>
    /\ UNCHANGED <<mpiVars, rsaVars, enumCall, enumRes, utilVars>>

\* read resumes after await this.decompress and after await stream.parse:
\* its promise fulfils, later than the assignment of this.packets
ReadFulfils ==
    /\ pktRead.pc = "decompress"
    /\ pktRead.packets.set
    /\ pktRead' = [pktRead EXCEPT !.pc = "done", !.err = "none"]
    /\ UNCHANGED <<pktPc, pktAlgo, pktPackets, pktCompressed, pktWire, regs>>
    /\ UNCHANGED <<mpiVars, rsaVars, enumCall, enumRes, utilVars>>

(***************************************************************************)
(* Elliptic curves: enums.curve, the curves table, CurveWithOID.           *)
(***************************************************************************)
\* enums.curve: names under various standards, mapped to one name
enumsCurve ==
    <<Entry("p256", "p256"),
      Entry("P-256", "p256"),
      Entry("secp256r1", "p256"),
      Entry("prime256v1", "p256"),
      Entry("1.2.840.10045.3.1.7", "p256"),
      Entry("2a8648ce3d030107", "p256"),
      Entry("2A8648CE3D030107", "p256"),
      Entry("p384", "p384"),
      Entry("P-384", "p384"),
      Entry("secp384r1", "p384"),
      Entry("1.3.132.0.34", "p384"),
      Entry("2b81040022", "p384"),
      Entry("2B81040022", "p384"),
      Entry("p521", "p521"),
      Entry("P-521", "p521"),
      Entry("secp521r1", "p521"),
      Entry("1.3.132.0.35", "p521"),
      Entry("2b81040023", "p521"),
      Entry("2B81040023", "p521"),
      Entry("secp256k1", "secp256k1"),
      Entry("1.3.132.0.10", "secp256k1"),
      Entry("2b8104000a", "secp256k1"),
      Entry("2B8104000A", "secp256k1"),
      Entry("ed25519Legacy", "ed25519"),
      Entry("ED25519", "ed25519"),
      Entry("ed25519", "ed25519"),
      Entry("Ed25519", "ed25519"),
      Entry("1.3.6.1.4.1.11591.15.1", "ed25519"),
      Entry("2b06010401da470f01", "ed25519"),
      Entry("2B06010401DA470F01", "ed25519"),
      Entry("curve25519Legacy", "curve25519"),
      Entry("X25519", "curve25519"),
      Entry("cv25519", "curve25519"),
      Entry("curve25519", "curve25519"),
      Entry("Curve25519", "curve25519"),
      Entry("1.3.6.1.4.1.3029.1.5.1", "curve25519"),
      Entry("2b060104019755010501", "curve25519"),
      Entry("2B060104019755010501", "curve25519"),
      Entry("brainpoolP256r1", "brainpoolP256r1"),
      Entry("1.3.36.3.3.2.8.1.1.7", "brainpoolP256r1"),
      Entry("2b2403030208010107", "brainpoolP256r1"),
      Entry("2B2403030208010107", "brainpoolP256r1"),
      Entry("brainpoolP384r1", "brainpoolP384r1"),
      Entry("1.3.36.3.3.2.8.1.1.11", "brainpoolP384r1"),
      Entry("2b240303020801010b", "brainpoolP384r1"),
      Entry("2B240303020801010B", "brainpoolP384r1"),
      Entry("brainpoolP512r1", "brainpoolP512r1"),
      Entry("1.3.36.3.3.2.8.1.1.13", "brainpoolP512r1"),
      Entry("2b240303020801010d", "brainpoolP512r1"),
      Entry("2B240303020801010D", "brainpoolP512r1")>>

\* a property the object literal does not give
Undefined == -1

\* the curves table: oid, keyType, hash, cipher, web name, payloadSize
CurveParams(oid, keyType, hash, cipher, web, payloadSize) ==
    [oid |-> oid, keyType |-> keyType, hash |-> hash, cipher |-> cipher,
     web |-> web, payloadSize |-> payloadSize]

curves ==
    [p256 |-> CurveParams(<<6, 8, 42, 134, 72, 206, 61, 3, 1, 7>>,
                          19, 8, 7, "P-256", 32),
     p384 |-> CurveParams(<<6, 5, 43, 129, 4, 0, 34>>, 19, 9, 8, "P-384", 48),
     p521 |-> CurveParams(<<6, 5, 43, 129, 4, 0, 35>>, 19, 10, 9, "P-521", 66),
     secp256k1 |-> CurveParams(<<6, 5, 43, 129, 4, 0, 10>>,
                               19, 8, 7, "undefined", 32),
     ed25519 |-> CurveParams(<<6, 9, 43, 6, 1, 4, 1, 218, 71, 15, 1>>,
                             22, 10, Undefined, "undefined", 32),
     curve25519 |-> CurveParams(<<6, 10, 43, 6, 1, 4, 1, 151, 85, 1, 5, 1>>,
                                18, 8, 7, "undefined", 32),
     brainpoolP256r1 |-> CurveParams(<<6, 9, 43, 36, 3, 3, 2, 8, 1, 1, 7>>,
                                     19, 8, 7, "undefined", 32),
     brainpoolP384r1 |-> CurveParams(<<6, 9, 43, 36, 3, 3, 2, 8, 1, 1, 11>>,
                                     19, 9, 8, "undefined", 48),
     brainpoolP512r1 |-> CurveParams(<<6, 9, 43, 36, 3, 3, 2, 8, 1, 1, 13>>,
                                     19, 10, 9, "undefined", 64)]

CurveNames == DOMAIN curves

StrOk(v) == [err |-> "none", val |-> v]
StrErr(msg) == [err |-> msg, val |-> ""]

\* outcomes of enums.write on enums.curve: the curve name of a declared
\* entry, the inherited member looked up by its name, or the Error thrown
CurveNameOk(v) == [err |-> "none", val |-> v, inherited |-> FALSE]
CurveNameInherited(e) == [err |-> "none", val |-> e, inherited |-> TRUE]
CurveNameErr(msg) == [err |-> msg, val |-> "", inherited |-> FALSE]

\* enums.write(enums.curve, e) for a string e
enumsWriteCurve(e) ==
    IF \E i \in 1..Len(enumsCurve) : enumsCurve[i].name = e
    THEN CurveNameOk(enumsCurve[CHOOSE i \in 1..Len(enumsCurve) :
                                    enumsCurve[i].name = e].value)
    ELSE IF e \in ObjectPrototype THEN CurveNameInherited(e)
    ELSE CurveNameErr("Invalid enum value.")

\* new OID(bytes).getName(): the DER header is dropped, the hex form of the
\* body is looked up in enums.curve
oidGetName(bytes) ==
    LET der == Len(bytes) > 0 /\ bytes[1] = 6
        body == IF der THEN subarray(bytes, 2, Len(bytes)) ELSE bytes
    IN  IF der /\ ByteAt(bytes, 1) # Len(bytes) - 2
        THEN StrErr("Length mismatch in DER encoded oid")
        ELSE IF \E n \in CurveNames : subarray(curves[n].oid, 2, 12) = body
        THEN StrOk(CHOOSE n \in CurveNames :
                       subarray(curves[n].oid, 2, 12) = body)
        ELSE StrErr("Unknown curve object identifier.")

NoCurve ==
    [err |-> "unset", name |-> "", keyType |-> Undefined, oid |-> <<>>,
     hash |-> Undefined, cipher |-> Undefined, web |-> FALSE,
     payloadSize |-> Undefined, type |-> "undefined"]

\* the fields the constructor sets from params = curves[name]
curveFields(name, params, webCrypto) ==
    [err |-> "none", name |-> name, keyType |-> params.keyType,
     oid |-> params.oid, hash |-> params.hash, cipher |-> params.cipher,
     web |-> params.web # "undefined",
     payloadSize |-> params.payloadSize,
     type |-> IF params.web # "undefined" /\ webCrypto THEN "web"
              ELSE IF name = "curve25519" THEN "curve25519"
              ELSE IF name = "ed25519" THEN "ed25519"
              ELSE "undefined"]

\* what reading params.keyType throws when curves[this.name] is undefined
NoParams == "TypeError: Cannot read properties of undefined"

\* the constructor leaving this.oid unset
CurveWithOID_NoOid(arg, webCrypto) ==
    LET named == IF arg.kind = "oid" THEN oidGetName(arg.bytes)
                 ELSE StrOk(arg.name)
        name == IF named.err = "none" THEN enumsWriteCurve(named.val)
                ELSE CurveNameErr(named.err)
    IN  IF name.err # "none" THEN [NoCurve EXCEPT !.err = "Unknown curve"]
        ELSE IF name.inherited THEN [NoCurve EXCEPT !.err = NoParams]
        ELSE [curveFields(name.val, curves[name.val], webCrypto)
                 EXCEPT !.oid = <<>>]

\* new CurveWithOID(oidOrName), params not given; webCrypto tells whether
\* util.getWebCrypto() gives an object.  A name enums.write answers with
\* an inherited member is no key of curves: params is undefined
CurveWithOID(arg, webCrypto) ==
    LET named == IF arg.kind = "oid" THEN oidGetName(arg.bytes)
                 ELSE StrOk(arg.name)
        name == IF named.err = "none" THEN enumsWriteCurve(named.val)
                ELSE CurveNameErr(named.err)
    IN  IF name.err # "none" THEN [NoCurve EXCEPT !.err = "Unknown curve"]
        ELSE IF name.inherited THEN [NoCurve EXCEPT !.err = NoParams]
        ELSE curveFields(name.val, curves[name.val], webCrypto)

\* random bytes getRandomBytes(32) returns: first and last byte from these
\* values, the bytes between them counted up from one of them
RandomByteVals == {0, 7, 64, 128, 200, 255}
RandomBytes32 ==
    {[i \in 1..32 |-> IF i = 1 THEN f ELSE IF i = 32 THEN l
                      ELSE (m + i) % 256] :
        f \in RandomByteVals, l \in RandomByteVals, m \in RandomByteVals}

\* Array.prototype.reverse on a copy
reverse(bytes) == [i \in 1..Len(bytes) |-> bytes[Len(bytes) + 1 - i]]

\* nacl.box.keyPair.fromSecretKey(secretKey).publicKey and
\* nacl.sign.keyPair.fromSeed(seed).publicKey: 32 bytes fixed by the secret
naclPublicKey(secret) == [i \in 1..32 |-> (secret[i] * 7 + i) % 256]

NoKeyPair == [kind |-> "unset", publicKey |-> <<>>, privateKey |-> <<>>]

\* genKeyPair of a curve25519 curve without the clamping of the secret
genKeyPair_NoClamp(type, random) ==
    IF type = "curve25519"
    THEN [kind |-> "curve25519",
          publicKey |-> <<64>> \o naclPublicKey(reverse(random)),
          privateKey |-> random]
    ELSE [kind |-> "ed25519",
          publicKey |-> <<64>> \o naclPublicKey(random),
          privateKey |-> random]

\* genKeyPair, cases 'curve25519' and 'ed25519', on the random bytes drawn
genKeyPair(type, random) ==
    IF type = "curve25519"
    THEN LET privateKey ==
                 [i \in 1..32 |->
                     IF i = 1 THEN LET x == random[1] % 128
                                   IN  IF x >= 64 THEN x ELSE x + 64
                     ELSE IF i = 32 THEN random[32] - (random[32] % 8)
                     ELSE random[i]]
             secretKey == reverse(privateKey)
         IN  [kind |-> "curve25519",
              publicKey |-> <<64>> \o naclPublicKey(secretKey),
              privateKey |-> privateKey]
    ELSE [kind |-> "ed25519",
          publicKey |-> <<64>> \o naclPublicKey(random),
          privateKey |-> random]

\* arguments new CurveWithOID is called with: every name of enums.curve, an
\* unknown name, two names of Object.prototype, the OIDs of the table with and without their DER header,
\* an OID with a wrong length byte and an unknown OID
NameArg(n) == [kind |-> "name", name |-> n, bytes |-> <<>>]
OidArg(b) == [kind |-> "oid", name |-> "", bytes |-> b]
CurveArgs ==
    {NameArg(enumsCurve[i].name) : i \in 1..Len(enumsCurve)}
        \cup {NameArg("p192"), NameArg("constructor"), NameArg("toString")}
        \cup {OidArg(curves[n].oid) : n \in CurveNames}
        \cup {OidArg(subarray(curves[n].oid, 2, 12)) : n \in CurveNames}
        \cup {OidArg(<<6, 4, 43, 129, 4, 0, 34>>), OidArg(<<6, 1, 42>>)}

IdleCurve ==
    /\ curvePc = "idle"
    /\ curveArg = NameArg("")
    /\ curve = NoCurve
    /\ curveRandom = <<>>
    /\ keyPair = NoKeyPair

InitCurve ==
    /\ curvePc = "start"
    /\ curveArg = NameArg("")
    /\ curve = NoCurve
    /\ curveRandom = <<>>
    /\ keyPair = NoKeyPair

\* new CurveWithOID(oidOrName)
NewCurve ==
    /\ curvePc = "start"
    /\ \E arg \in CurveArgs, webCrypto \in BOOLEAN :
          /\ curveArg' = arg
          /\ curve' = CurveWithOID(arg, webCrypto)
    /\ curvePc' = "built"
    /\ UNCHANGED <<curveRandom, keyPair>>
    /\ UNCHANGED notCurve

\* genKeyPair() on a curve of type 'curve25519' or 'ed25519'
GenKeyPairNative ==
    /\ curvePc = "built"
    /\ curve.err = "none"
    /\ curve.type \in {"curve25519", "ed25519"}
    /\ \E random \in RandomBytes32 :
          /\ curveRandom' = random
          /\ keyPair' = genKeyPair(curve.type, random)
    /\ curvePc' = "generated"
    /\ UNCHANGED <<curveArg, curve>>
    /\ UNCHANGED notCurve

\* genKeyPair() on any other curve: the key pair comes from Web Crypto or,
\* when that fails or is absent, from the indutny curve
GenKeyPairExternal ==
    /\ curvePc = "built"
    /\ curve.err = "none"
    /\ curve.type \in {"web", "undefined"}
    /\ \E kind \in {"web", "indutny"} :
          /\ kind = "web" => curve.type = "web"
          /\ keyPair' = [NoKeyPair EXCEPT !.kind = kind]
    /\ curvePc' = "generated"
    /\ UNCHANGED <<curveArg, curve, curveRandom>>
    /\ UNCHANGED notCurve

(***************************************************************************)
(* Bitwise operators on naturals, as JavaScript applies them to bytes.     *)
(***************************************************************************)
RECURSIVE bitAnd(_, _)
bitAnd(a, b) ==
    IF a = 0 \/ b = 0 THEN 0
    ELSE ((a % 2) * (b % 2)) + 2 * bitAnd(a \div 2, b \div 2)

RECURSIVE bitOr(_, _)
bitOr(a, b) ==
    IF a = 0 THEN b ELSE IF b = 0 THEN a
    ELSE (IF a % 2 = 1 \/ b % 2 = 1 THEN 1 ELSE 0)
             + 2 * bitOr(a \div 2, b \div 2)

RECURSIVE bitXor(_, _)
bitXor(a, b) ==
    IF a = 0 THEN b ELSE IF b = 0 THEN a
    ELSE (((a % 2) + (b % 2)) % 2) + 2 * bitXor(a \div 2, b \div 2)

(***************************************************************************)
(* GCM.getNonce.                                                           *)
(***************************************************************************)
\* ivLength and the length of a chunk index
IvLength == 12
ChunkIndexLength == 8

\* byte arrays of a given length: a start value and a step from byte to byte
Ramp(length, start, step) ==
    [i \in 1..length |-> (start + (i - 1) * step) % 256]
GcmIvs == {Ramp(IvLength, a, d) : a \in {0, 1, 170, 255}, d \in {0, 1, 17}}
GcmChunkIndexes ==
    {Ramp(ChunkIndexLength, a, d) : a \in {0, 1, 85, 255}, d \in {0, 3, 255}}

RECURSIVE nonceLoop(_, _, _)
\* the loop of getNonce: nonce[4 + i] ^= chunkIndex[i]; a write past the
\* end of the typed array has no effect
nonceLoop(nonce, chunkIndex, i) ==
    IF i >= Len(chunkIndex) THEN nonce
    ELSE nonceLoop(IF 4 + i < Len(nonce)
                   THEN [nonce EXCEPT ![5 + i] = bitXor(@, chunkIndex[i + 1])]
                   ELSE nonce,
                   chunkIndex, i + 1)

\* getNonce working on iv itself, without iv.slice()
getNonce_InPlace(iv, chunkIndex) ==
    [nonce |-> nonceLoop(iv, chunkIndex, 0),
     iv |-> nonceLoop(iv, chunkIndex, 0)]

\* GCM.getNonce(iv, chunkIndex): the nonce returned and iv after the call
getNonce(iv, chunkIndex) ==
    [nonce |-> nonceLoop(iv, chunkIndex, 0), iv |-> iv]

NoNonce == [nonce |-> <<>>, iv |-> <<>>]

IdleGcm ==
    /\ gcmPc = "idle"
    /\ gcmIv = <<>>
    /\ gcmChunkIndex = <<>>
    /\ gcmRes = NoNonce

InitGcm ==
    /\ gcmPc = "init"
    /\ gcmIv \in GcmIvs
    /\ gcmChunkIndex \in GcmChunkIndexes
    /\ gcmRes = NoNonce

\* GCM.getNonce(iv, chunkIndex)
GetNonce ==
    /\ gcmPc = "init"
    /\ gcmRes' = getNonce(gcmIv, gcmChunkIndex)
    /\ gcmPc' = "done"
    /\ UNCHANGED <<gcmIv, gcmChunkIndex>>
    /\ UNCHANGED notGcm

(***************************************************************************)
(* util.double.                                                            *)
(***************************************************************************)
\* the block length of the ciphers OCB and EAX double for
BlockLength == 16
DoubleInputs ==
    ByteArrays(MaxLen) \cup
    {Ramp(BlockLength, a, d) : a \in {0, 127, 128, 255}, d \in {0, 1, 128}}

\* util.double without the reduction by 0x87
double_NoReduction(data) ==
    LET last == Len(data) - 1
    IN  [result |->
            [i \in 1..Len(data) |->
                IF i - 1 < last
                THEN bitXor(data[i] * 2, data[i + 1] \div 128) % 256
                ELSE (data[i] * 2) % 256],
         data |-> data]

\* util.double(data): the block returned and data after the call; the
\* Uint8Array keeps the low 8 bits of what is stored
double(data) ==
    LET last == Len(data) - 1
    IN  [result |->
            [i \in 1..Len(data) |->
                IF i - 1 < last
                THEN bitXor(data[i] * 2, data[i + 1] \div 128) % 256
                ELSE bitXor(data[i] * 2, (data[1] \div 128) * 135) % 256],
         data |-> data]

NoDouble == [result |-> <<>>, data |-> <<>>]

IdleDbl ==
    /\ dblPc = "idle"
    /\ dblData = <<>>
    /\ dblRes = NoDouble

InitDbl ==
    /\ dblPc = "init"
    /\ dblData \in DoubleInputs
    /\ dblRes = NoDouble

\* util.double(data)
Double ==
    /\ dblPc = "init"
    /\ dblRes' = double(dblData)
    /\ dblPc' = "done"
    /\ UNCHANGED dblData
    /\ UNCHANGED notDbl

(***************************************************************************)
(* util.selectUint8Array and util.selectUint8.                             *)
(***************************************************************************)
\* byte values given to selectUint8 as its second alternative
SelectByteVals == {0, 1, 85, 127, 128, 170, 254, 255}

\* what an execution does to its arrays, in order
ReadA(i) == <<"read a", i>>
ReadB(i) == <<"read b", i>>
WriteResult(i) == <<"write result", i>>

\* selectUint8Array copying the chosen array in a branch on cond
selectUint8Array_Branching(cond, a, b) ==
    LET chosen == IF cond = 1 THEN a ELSE b
        read(i) == IF cond = 1 THEN ReadA(i) ELSE ReadB(i)
        RECURSIVE steps(_)
        steps(i) == IF i >= Len(chosen) THEN <<>>
                    ELSE <<read(i), WriteResult(i)>> \o steps(i + 1)
    IN  [result |-> chosen, trace |-> steps(0)]

\* selectUint8Array returning result without cutting it at end
selectUint8Array_NoCut(cond, a, b) ==
    LET length == Max(Len(a), Len(b))
    IN  [result |-> [i \in 1..length |->
                        bitOr(bitAnd(ByteAt(a, i - 1), 256 - cond),
                              bitAnd(ByteAt(b, i - 1), 255 + cond))],
         trace |-> <<>>]

RECURSIVE selectLoop(_, _, _, _, _, _, _)
\* the loop of selectUint8Array from index i on: a[i] and b[i] are read
\* (undefined past the end, 0 under &), result[i] is written, end is counted
selectLoop(cond, a, b, i, result, end, trace) ==
    IF i >= Len(result) THEN [result |-> subarray(result, 0, end),
                              trace |-> trace]
    ELSE selectLoop(cond, a, b, i + 1,
             [result EXCEPT ![i + 1] =
                 bitOr(bitAnd(ByteAt(a, i), 256 - cond),
                       bitAnd(ByteAt(b, i), 255 + cond))],
             end + bitOr(bitAnd(cond, IF i < Len(a) THEN 1 ELSE 0),
                         bitAnd(1 - cond, IF i < Len(b) THEN 1 ELSE 0)),
             trace \o <<ReadA(i), ReadB(i), WriteResult(i)>>)

\* util.selectUint8Array(cond, a, b): the array returned and the reads and
\* writes of the execution
selectUint8Array(cond, a, b) ==
    LET length == Max(Len(a), Len(b))
    IN  selectLoop(cond, a, b, 0, [i \in 1..length |-> 0], 0, <<>>)

\* util.selectUint8(cond, a, b)
selectUint8(cond, a, b) ==
    bitOr(bitAnd(a, 256 - cond), bitAnd(b, 255 + cond))

NoSelect == [result |-> <<>>, trace |-> <<>>]
NoByte == -1

IdleSel ==
    /\ selPc = "idle"
    /\ selA = <<>>
    /\ selB = <<>>
    /\ selRuns = [cond \in {0, 1} |-> NoSelect]
    /\ selBytes = <<>>
    /\ sel8 = [cond \in {0, 1} |-> NoByte]

InitSel ==
    /\ selPc = "init"
    /\ selA \in ByteArrays(MaxLen)
    /\ selB \in ByteArrays(MaxLen)
    /\ selRuns = [cond \in {0, 1} |-> NoSelect]
    /\ selBytes = <<>>
    /\ sel8 = [cond \in {0, 1} |-> NoByte]

\* util.selectUint8Array(cond, a, b), executed once with cond = 0 and once
\* with cond = 1 on the same a and b
SelectUint8Array ==
    /\ selPc = "init"
    /\ selRuns' = [cond \in {0, 1} |-> selectUint8Array(cond, selA, selB)]
    /\ selPc' = "array"
    /\ UNCHANGED <<selA, selB, selBytes, sel8>>
    /\ UNCHANGED notSel

\* util.selectUint8(cond, a, b), with cond = 0 and with cond = 1
SelectUint8 ==
    /\ selPc = "init"
    /\ selA = <<>>
    /\ selB = <<>>
    /\ \E a \in 0..255, b \in SelectByteVals :
           /\ selBytes' = <<a, b>>
           /\ sel8' = [cond \in {0, 1} |-> selectUint8(cond, a, b)]
    /\ selPc' = "byte"
    /\ UNCHANGED <<selA, selB, selRuns>>
    /\ UNCHANGED notSel

(***************************************************************************)
(* util.canonicalizeEOL over a stream of chunks.                           *)
(***************************************************************************)
CR == 13
LF == 10
\* the bytes of the data: the two line-ending bytes and one other byte
EolBytes == {CR, LF, 65}
\* the bytes of a whole stream and the chunks it arrives in
MaxEolLen == 4
MaxChunks == 3
ChunksUpTo(n) == UNION {[1..k -> EolBytes] : k \in 0..n}

\* the indices collected by the first loop: index is one more than the
\* (0-based) position of an LF, kept when bytes[index - 2] is not CR
lfIndices(bytes) ==
    {index \in 1..Len(bytes) :
        /\ bytes[index] = LF
        /\ ByteAt(bytes, index - 2) # CR}

RECURSIVE normalize(_, _, _)
\* the second loop from 0-based position i on: every part of bytes up to the
\* next index is copied, its last byte (the LF) is overwritten by CR and LF
\* is written behind it; the rest of bytes is copied unchanged
normalize(bytes, indices, i) ==
    IF i >= Len(bytes) THEN <<>>
    ELSE IF (i + 1) \in indices
         THEN <<CR, LF>> \o normalize(bytes, indices, i + 1)
         ELSE <<bytes[i + 1]>> \o normalize(bytes, indices, i + 1)

\* the callback without the carried CR put in front of the next chunk
canonicalizeChunk_NoCarry(carry, chunk) ==
    LET endsWithCR == chunk # <<>> /\ chunk[Len(chunk)] = CR
        bytes == IF endsWithCR THEN subarray(chunk, 0, Len(chunk) - 1)
                 ELSE chunk
        indices == lfIndices(bytes)
    IN  [out |-> IF indices = {} THEN bytes ELSE normalize(bytes, indices, 0),
         carryOverCR |-> endsWithCR]

\* the transform callback on one chunk, given carryOverCR: the bytes emitted
\* and carryOverCR afterwards
canonicalizeChunk(carry, chunk) ==
    LET joined == IF carry THEN <<CR>> \o chunk ELSE chunk
        endsWithCR == joined # <<>> /\ joined[Len(joined)] = CR
        bytes == IF endsWithCR THEN subarray(joined, 0, Len(joined) - 1)
                 ELSE joined
        indices == lfIndices(bytes)
    IN  [out |-> IF indices = {} THEN bytes ELSE normalize(bytes, indices, 0),
         carryOverCR |-> endsWithCR]

\* the finish callback: a carried CR is emitted at the end of the stream
canonicalizeFinish(carry) == IF carry THEN <<CR>> ELSE <<>>

IdleEol ==
    /\ eolPc = "idle"
    /\ eolIn = <<>>
    /\ eolSplits = <<>>
    /\ carryOverCR = FALSE
    /\ eolOut = <<>>

\* canonicalizeEOL(data) was called, nothing was read from data yet
InitEol ==
    /\ eolPc = "open"
    /\ eolIn = <<>>
    /\ eolSplits = <<>>
    /\ carryOverCR = FALSE
    /\ eolOut = <<>>

\* stream.transform hands the next chunk of data to the callback and
\* enqueues what it returns
TransformChunk ==
    /\ eolPc = "open"
    /\ Len(eolSplits) < MaxChunks
    /\ \E chunk \in ChunksUpTo(MaxEolLen - Len(eolIn)) :
           LET r == canonicalizeChunk(carryOverCR, chunk)
           IN  /\ eolIn' = eolIn \o chunk
               /\ eolSplits' = Append(eolSplits, Len(chunk))
               /\ carryOverCR' = r.carryOverCR
               /\ eolOut' = eolOut \o r.out
    /\ UNCHANGED eolPc
    /\ UNCHANGED notEol

\* data ends: stream.transform calls finish and closes the output
FinishStream ==
    /\ eolPc = "open"
    /\ eolOut' = eolOut \o canonicalizeFinish(carryOverCR)
    /\ eolPc' = "closed"
    /\ UNCHANGED <<eolIn, eolSplits, carryOverCR>>
    /\ UNCHANGED notEol

(***************************************************************************)
(* util.anyPromise.  Input i fulfils with the value i or is rejected with  *)
(* the error i; 0 stands for undefined.                                    *)
(***************************************************************************)
MaxPromises == 3

Pending == [state |-> "pending", val |-> 0]
Fulfilled(v) == [state |-> "fulfilled", val |-> v]
Rejected(e) == [state |-> "rejected", val |-> e]

\* resolve that settles the promise again when it is settled already
resolve_Overwrite(promise, v) == Fulfilled(v)

\* the resolve function of a promise: the first call of resolve or reject
\* settles it, later calls have no effect
resolve(promise, v) ==
    IF promise.state = "pending" THEN Fulfilled(v) ELSE promise

\* reject that settles the promise again when it is settled already
reject_Overwrite(promise, e) == Rejected(e)

\* the reject function of a promise
reject(promise, e) ==
    IF promise.state = "pending" THEN Rejected(e) ELSE promise

\* the inputs settled so far, in the order of the array
RECURSIVE settledInOrder(_, _)
settledInOrder(promises, i) ==
    IF i > Len(promises) THEN <<>>
    ELSE (IF promises[i].state # "pending" THEN <<i>> ELSE <<>>)
             \o settledInOrder(promises, i + 1)

IdleAny ==
    /\ apPc = "idle"
    /\ apPromises = <<>>
    /\ apTime = <<>>
    /\ apClock = 0
    /\ apCalled = 0
    /\ apJobs = <<>>
    /\ apRan = {}
    /\ apException = 0
    /\ apResult = Pending

\* some pending promises exist, anyPromise is not called yet
InitAny ==
    /\ apPc = "before"
    /\ \E n \in 0..MaxPromises :
           /\ apPromises = [i \in 1..n |-> Pending]
           /\ apTime = [i \in 1..n |-> 0]
    /\ apClock = 0
    /\ apCalled = 0
    /\ apJobs = <<>>
    /\ apRan = {}
    /\ apException = 0
    /\ apResult = Pending

\* an input settles; when anyPromise awaits it, the continuation of its
\* wrapper is queued as a job
SettleInput(i, outcome) ==
    /\ apPc \in {"before", "called"}
    /\ apPromises[i].state = "pending"
    /\ apPromises' = [apPromises EXCEPT ![i] = outcome]
    /\ apClock' = apClock + 1
    /\ apTime' = [apTime EXCEPT ![i] = apClock + 1]
    /\ apJobs' = IF apPc = "called" THEN Append(apJobs, i) ELSE apJobs
    /\ UNCHANGED <<apPc, apCalled, apRan, apException, apResult>>
    /\ UNCHANGED notAny

FulfilInput == \E i \in 1..Len(apPromises) : SettleInput(i, Fulfilled(i))

RejectInput == \E i \in 1..Len(apPromises) : SettleInput(i, Rejected(i))

\* anyPromise(promises): the executor maps the wrapper over the array; each
\* wrapper runs up to its await, and the continuations of the inputs that
\* are settled already are queued in the order of the array
CallAnyPromise ==
    /\ apPc = "before"
    /\ apPc' = "called"
    /\ apClock' = apClock + 1
    /\ apCalled' = apClock + 1
    /\ apJobs' = settledInOrder(apPromises, 1)
    /\ UNCHANGED <<apPromises, apTime, apRan, apException, apResult>>
    /\ UNCHANGED notAny

\* the job at the head of the queue: the wrapper of a settled input goes on
\* after its await, with resolve(value) or with exception = e
RunWrapper ==
    /\ apPc = "called"
    /\ apJobs # <<>>
    /\ LET i == Head(apJobs)
       IN  /\ apResult' = IF apPromises[i].state = "fulfilled"
                          THEN resolve(apResult, apPromises[i].val)
                          ELSE apResult
           /\ apException' = IF apPromises[i].state = "rejected"
                             THEN apPromises[i].val
                             ELSE apException
           /\ apRan' = apRan \cup {i}
    /\ apJobs' = Tail(apJobs)
    /\ UNCHANGED <<apPc, apPromises, apTime, apClock, apCalled>>
    /\ UNCHANGED notAny

\* every wrapper has returned: Promise.all fulfils and reject(exception) runs
RejectAfterAll ==
    /\ apPc = "called"
    /\ apRan = 1..Len(apPromises)
    /\ apResult' = reject(apResult, apException)
    /\ apPc' = "finished"
    /\ UNCHANGED <<apPromises, apTime, apClock, apCalled, apJobs, apRan,
                   apException>>
    /\ UNCHANGED notAny

(***************************************************************************)
(* util.writeChecksum.                                                     *)
(***************************************************************************)
\* the mask 0xFFFF of the running sum
ChecksumMask == 65535

\* util.writeNumber(n, bytes): the low bytes of n, most significant first
writeNumber(n, bytes) ==
    [i \in 1..bytes |-> bitAnd(n \div Pow2(8 * (bytes - i)), 255)]

\* arrays long enough for the sum of their bytes to pass 16 bits
ChecksumInputs ==
    ByteArrays(MaxLen) \cup
    {[i \in 1..n |-> v] : n \in {257, 258}, v \in {254, 255}}

\* the loop body reducing modulo 65535 instead of masking
checksumStep_Mod65535(s, byte) == (s + byte) % 65535

\* the body of the loop of writeChecksum: s = (s + text[i]) & 0xFFFF
checksumStep(s, byte) == bitAnd(s + byte, ChecksumMask)

IdleSum ==
    /\ sumPc = "idle"
    /\ sumText = <<>>
    /\ sumI = 0
    /\ sumS = 0
    /\ sumOut = <<>>

\* writeChecksum(text) is entered: let s = 0, i = 0
InitSum ==
    /\ sumPc = "loop"
    /\ sumText \in ChecksumInputs
    /\ sumI = 0
    /\ sumS = 0
    /\ sumOut = <<>>

\* one iteration of the loop
ChecksumAdd ==
    /\ sumPc = "loop"
    /\ sumI < Len(sumText)
    /\ sumS' = checksumStep(sumS, sumText[sumI + 1])
    /\ sumI' = sumI + 1
    /\ UNCHANGED <<sumPc, sumText, sumOut>>
    /\ UNCHANGED notSum

\* the loop is left: return util.writeNumber(s, 2)
ChecksumReturn ==
    /\ sumPc = "loop"
    /\ sumI >= Len(sumText)
    /\ sumOut' = writeNumber(sumS, 2)
    /\ sumPc' = "done"
    /\ UNCHANGED <<sumText, sumI, sumS>>
    /\ UNCHANGED notSum

(***************************************************************************)
(* HKDF.                                                                   *)
(***************************************************************************)
\* the hash algorithm IDs given to HKDF are 0 .. MaxHashId
MaxHashId == 20

NoHkdf == [err |-> "unset", hash |-> ""]

\* the first two lines of HKDF: the registries after enums.read, then the
\* error thrown or the WebCrypto name of the hash
hkdfHash(rs, hashAlgo) ==
    LET rd == enumsRead(rs, "webHash", hashAlgo)
    IN  [regs |-> rd.regs,
         res |-> IF rd.res.err # "none"
                 THEN [err |-> rd.res.err, hash |-> ""]
                 ELSE IF rd.res.name = ""
                 THEN [err |-> "Hash algo not supported with HKDF",
                       hash |-> ""]
                 ELSE [err |-> "none", hash |-> rd.res.name]]

IdleHkdf ==
    /\ hkdfPc = "idle"
    /\ hkdfAlgo = 0
    /\ hkdfWebCrypto = FALSE
    /\ hkdfRes = NoHkdf
    /\ webCalls = <<>>

\* before HKDF(hashAlgo, ...): util.getWebCrypto() gave an API or undefined
InitHkdf ==
    /\ hkdfPc = "init"
    /\ hkdfAlgo \in 0..MaxHashId
    /\ hkdfWebCrypto \in BOOLEAN
    /\ hkdfRes = NoHkdf
    /\ webCalls = <<>>

\* the registries HKDF may find: as declared, or with the index of webHash
\* built by an earlier enums.read
HkdfRegs == {InitRegs, enumsRead(InitRegs, "webHash", 0).regs}

\* HKDF up to its first await or throw
HkdfStart ==
    /\ hkdfPc = "init"
    /\ LET h == hkdfHash(regs, hkdfAlgo)
       IN  /\ regs' = h.regs
           /\ IF h.res.err # "none"
              THEN /\ hkdfRes' = h.res
                   /\ hkdfPc' = "failed"
                   /\ webCalls' = webCalls
              ELSE IF hkdfWebCrypto
              THEN /\ hkdfRes' = h.res
                   /\ hkdfPc' = "importKey"
                   /\ webCalls' = Append(webCalls, "importKey")
              ELSE /\ hkdfRes' = [err |-> "No HKDF implementation available",
                                  hash |-> h.res.hash]
                   /\ hkdfPc' = "failed"
                   /\ webCalls' = webCalls
    /\ UNCHANGED <<hkdfAlgo, hkdfWebCrypto>>
    /\ UNCHANGED <<mpiVars, rsaVars, pktVars, enumCall, enumRes>>
    /\ UNCHANGED <<curveVars, gcmVars, dblVars, selVars, eolVars, anyVars, sumVars, nsVars, ecVars>>

\* the rejections of crypto.importKey and crypto.deriveBits
HkdfWebErrors == {"TypeError", "DataError", "OperationError"}

\* importKey has fulfilled: crypto.deriveBits is called
HkdfDeriveBits ==
    /\ hkdfPc = "importKey"
    /\ webCalls' = Append(webCalls, "deriveBits")
    /\ hkdfPc' = "deriveBits"
    /\ UNCHANGED <<hkdfAlgo, hkdfWebCrypto, hkdfRes>>
    /\ UNCHANGED notHkdf

\* importKey has rejected: HKDF throws that error, deriveBits is not called
HkdfImportKeyRejects ==
    /\ hkdfPc = "importKey"
    /\ \E err \in HkdfWebErrors : hkdfRes' = [hkdfRes EXCEPT !.err = err]
    /\ hkdfPc' = "failed"
    /\ UNCHANGED <<hkdfAlgo, hkdfWebCrypto, webCalls>>
    /\ UNCHANGED notHkdf

\* deriveBits has fulfilled: HKDF returns the bits
HkdfReturn ==
    /\ hkdfPc = "deriveBits"
    /\ hkdfPc' = "done"
    /\ UNCHANGED <<hkdfAlgo, hkdfWebCrypto, hkdfRes, webCalls>>
    /\ UNCHANGED notHkdf

\* deriveBits has rejected: HKDF throws that error and returns no bytes
HkdfDeriveBitsRejects ==
    /\ hkdfPc = "deriveBits"
    /\ \E err \in HkdfWebErrors : hkdfRes' = [hkdfRes EXCEPT !.err = err]
    /\ hkdfPc' = "failed"
    /\ UNCHANGED <<hkdfAlgo, hkdfWebCrypto, webCalls>>
    /\ UNCHANGED notHkdf

(***************************************************************************)
(* rsa.sign and rsa.verify: the native (WebCrypto) path and the fallback.  *)
(***************************************************************************)
\* data is absent, a stream, or bytes
DataKinds == {"absent", "stream", "bytes"}
\* hash IDs handed to sign and verify: md5, sha1, ripemd, sha256, sha224
RsaHashAlgos == {1, 2, 3, 8, 11}
\* the key of the calls
nativeKey == CHOOSE k \in WideKeys : TRUE
\* digests, and signatures given to verify: the one bnSign makes, and zero
RsaDigests == {3, 12}
RsaSignatures ==
    {bnSign(Sha256, nativeKey.n, nativeKey.d, h).val : h \in RsaDigests}
        \cup {<<0, 0>>}
\* what webSign and webVerify can answer, and the errors they can throw
NativeAnswers(op) ==
    IF op = "sign" THEN {Ok(<<1, 2>>)} ELSE {BoolOk(TRUE), BoolOk(FALSE)}
NativeErrors == {"DataError", "OperationError", "NotSupportedError"}

\* the condition trying the native path for a stream too
attemptsNative_Stream(data, web) == data # "absent" /\ web

\* if (data && !util.isStream(data)) { if (util.getWebCrypto()) { try ...
attemptsNative(data, web) == data = "bytes" /\ web

\* the last line of sign and of verify: bnSign or bnVerify on hashed
bnOutcome(call) ==
    IF call.op = "sign"
    THEN bnSign(call.hashAlgo, nativeKey.n, nativeKey.d, call.hashed)
    ELSE bnVerify(call.hashAlgo, call.s, nativeKey.n, nativeKey.e,
                  call.hashed)

NoRsaCall ==
    [op |-> "none", data |-> "absent", web |-> FALSE, hashAlgo |-> 0,
     hashed |-> 0, s |-> <<>>]
NoOutcome == [by |-> "none", out |-> NoResult]

IdleNs ==
    /\ nsPc = "idle"
    /\ nsCall = NoRsaCall
    /\ nsErr = "none"
    /\ nsPaths = <<>>
    /\ nsRes = NoOutcome

\* before rsa.sign or rsa.verify
InitNs ==
    /\ nsPc = "init"
    /\ nsCall \in [op : {"sign", "verify"}, data : DataKinds, web : BOOLEAN,
                   hashAlgo : RsaHashAlgos, hashed : RsaDigests,
                   s : RsaSignatures]
    /\ nsCall.op = "sign" => nsCall.s = <<0, 0>>
    /\ nsErr = "none"
    /\ nsPaths = <<>>
    /\ nsRes = NoOutcome

\* sign or verify up to its first await: without the native path, or when
\* enums.read throws inside the try (the catch logs the error), bnSign or
\* bnVerify is entered and awaited; otherwise webSign or webVerify is
\* called.  The promise returned is pending in every case
RsaCall ==
    /\ nsPc = "init"
    /\ IF attemptsNative(nsCall.data, nsCall.web)
       THEN LET rd == enumsRead(regs, "webHash", nsCall.hashAlgo)
            IN  /\ regs' = rd.regs
                /\ IF rd.res.err # "none"
                   THEN /\ nsErr' = rd.res.err
                        /\ nsPaths' = <<"bn">>
                        /\ nsPc' = "bn"
                   ELSE /\ nsErr' = nsErr
                        /\ nsPaths' = <<"web">>
                        /\ nsPc' = "native"
       ELSE /\ regs' = regs
            /\ nsErr' = nsErr
            /\ nsPaths' = <<"bn">>
            /\ nsPc' = "bn"
    /\ UNCHANGED <<nsCall, nsRes>>
    /\ UNCHANGED <<mpiVars, rsaVars, pktVars, enumCall, enumRes>>
    /\ UNCHANGED <<curveVars, gcmVars, dblVars, selVars, eolVars, anyVars, sumVars, hkdfVars, ecVars>>

\* the native operation answers: return await webSign(...) / webVerify(...)
NativeReturns ==
    /\ nsPc = "native"
    /\ \E answer \in NativeAnswers(nsCall.op) :
           nsRes' = [by |-> "web", out |-> answer]
    /\ nsPc' = "done"
    /\ UNCHANGED <<nsCall, nsErr, nsPaths>>
    /\ UNCHANGED notNs

\* the native operation throws: catch (err) { console.error(err) }, then
\* bnSign or bnVerify is entered and awaited; the promise is still pending
NativeThrows ==
    /\ nsPc = "native"
    /\ \E name \in NativeErrors : nsErr' = name
    /\ nsPaths' = Append(nsPaths, "bn")
    /\ nsPc' = "bn"
    /\ UNCHANGED <<nsCall, nsRes>>
    /\ UNCHANGED notNs

\* bnSign or bnVerify answers: sign or verify returns what it gave
BnReturns ==
    /\ nsPc = "bn"
    /\ nsRes' = [by |-> "bn", out |-> bnOutcome(nsCall)]
    /\ nsPc' = "done"
    /\ UNCHANGED <<nsCall, nsErr, nsPaths>>
    /\ UNCHANGED notNs

(***************************************************************************)
(* ecdsa.sign and ecdsa.verify: the native path, the errors that are       *)
(* thrown on, and the elliptic-library path.                               *)
(***************************************************************************)
\* curves of key type ecdsa given to sign and verify, by their OID
EcdsaCurves == {"p256", "p384", "p521", "secp256k1", "brainpoolP256r1"}
\* hashAlgo: not given, or ripemd, sha256, sha512
EcdsaHashAlgos == {Undefined, 3, 8, 10}
\* names of the errors webSign and webVerify end in: those of WebCrypto, and
\* Error, thrown by enums.read for a hash without a WebCrypto name
EcdsaErrors == {"DataError", "OperationError", "NotSupportedError", "Error"}

EcOutcome(by, on, val, err) ==
    [by |-> by, on |-> on, val |-> val, err |-> err]
NoEcOutcome == EcOutcome("none", "", "", "none")

\* what webSign and webVerify answer with
webAnswers(op) ==
    IF op = "sign" THEN {EcOutcome("web", "message", "signature", "none")}
    ELSE {EcOutcome("web", "message", "true", "none"),
          EcOutcome("web", "message", "false", "none")}

\* the catch block throwing for p521 as for the other curves
rethrows_AlsoP521(name, errName) ==
    errName = "DataError" \/ errName = "OperationError"

\* the condition of the catch block: the error is thrown on
rethrows(name, errName) ==
    name # "p521" /\ (errName = "DataError" \/ errName = "OperationError")

\* what the elliptic library is run on: ellipticSign on hashed;
\* ellipticVerify on digest, which is message when hashAlgo is undefined
ellipticOutcome(call) ==
    IF call.op = "sign"
    THEN EcOutcome("elliptic", "hashed", "signature", "none")
    ELSE EcOutcome("elliptic",
                   IF call.hashAlgo = Undefined THEN "message" ELSE "hashed",
                   "verdict", "none")

NoEcCall ==
    [op |-> "none", curve |-> "", message |-> "absent",
     hashAlgo |-> Undefined, web |-> FALSE]

IdleEc ==
    /\ ecPc = "idle"
    /\ ecCall = NoEcCall
    /\ ecCurve = NoCurve
    /\ ecErr = "none"
    /\ ecPaths = <<>>
    /\ ecRes = NoEcOutcome

\* before ecdsa.sign or ecdsa.verify
InitEc ==
    /\ ecPc = "init"
    /\ ecCall \in [op : {"sign", "verify"}, curve : EcdsaCurves,
                   message : DataKinds, hashAlgo : EcdsaHashAlgos,
                   web : BOOLEAN]
    /\ ecCurve = NoCurve
    /\ ecErr = "none"
    /\ ecPaths = <<>>
    /\ ecRes = NoEcOutcome

\* sign or verify up to its first await: the curve is built; for a message
\* given as bytes on a curve of type 'web', webSign or webVerify is entered
\* (it reads the WebCrypto name of curve.hash and calls importKey);
\* otherwise ellipticSign or ellipticVerify is entered and awaited.  The
\* promise returned is pending in every case
EcdsaCall ==
    /\ ecPc = "init"
    /\ LET c == CurveWithOID(OidArg(curves[ecCall.curve].oid), ecCall.web)
       IN  /\ ecCurve' = c
           /\ IF ecCall.message = "bytes" /\ c.type = "web"
              THEN /\ regs' = enumsRead(regs, "webHash", c.hash).regs
                   /\ ecPaths' = <<"web">>
                   /\ ecRes' = ecRes
                   /\ ecPc' = "native"
              ELSE /\ regs' = regs
                   /\ ecPaths' = <<"elliptic">>
                   /\ ecRes' = ecRes
                   /\ ecPc' = "elliptic"
    /\ UNCHANGED <<ecCall, ecErr>>
    /\ UNCHANGED <<mpiVars, rsaVars, pktVars, enumCall, enumRes>>
    /\ UNCHANGED <<curveVars, gcmVars, dblVars, selVars, eolVars, anyVars, sumVars, hkdfVars, nsVars>>

\* the native operation answers; it cannot for a hashAlgo that enums.webHash
\* has no name for
EcdsaNativeReturns ==
    /\ ecPc = "native"
    /\ \E pr \in byValueOf(enums["webHash"], 1, {}) : pr[1] = ecCall.hashAlgo
    /\ \E answer \in webAnswers(ecCall.op) : ecRes' = answer
    /\ ecPc' = "done"
    /\ UNCHANGED <<ecCall, ecCurve, ecErr, ecPaths>>
    /\ UNCHANGED notEc

\* the native operation throws: the error is thrown on; or it is logged
\* and ellipticSign or ellipticVerify is entered and awaited, the promise
\* still pending
EcdsaNativeThrows ==
    /\ ecPc = "native"
    /\ \E errName \in EcdsaErrors :
           /\ ecErr' = errName
           /\ IF rethrows(ecCurve.name, errName)
              THEN /\ ecRes' = EcOutcome("thrown", "", "", errName)
                   /\ ecPaths' = ecPaths
                   /\ ecPc' = "done"
              ELSE /\ ecRes' = ecRes
                   /\ ecPaths' = Append(ecPaths, "elliptic")
                   /\ ecPc' = "elliptic"
    /\ UNCHANGED <<ecCall, ecCurve>>
    /\ UNCHANGED notEc

\* ellipticSign or ellipticVerify answers: sign or verify returns it
EllipticReturns ==
    /\ ecPc = "elliptic"
    /\ ecRes' = ellipticOutcome(ecCall)
    /\ ecPc' = "done"
    /\ UNCHANGED <<ecCall, ecCurve, ecErr, ecPaths>>
    /\ UNCHANGED notEc

\* no utility component is in use
IdleUtil == IdleCurve /\ IdleGcm /\ IdleDbl /\ IdleSel /\ IdleEol /\ IdleAny /\ IdleSum /\ IdleHkdf /\ IdleNs /\ IdleEc

(***************************************************************************)
(* Specifications: one per component, the other components idle.           *)
(***************************************************************************)
IdleEnums == InitEnums

InitSpecMPI == InitMPI /\ IdleRSA /\ IdlePkt /\ IdleEnums /\ IdleUtil
NextMPI == WriteMPI \/ ReadWrittenMPI \/ ParseMPI
SpecMPI == InitSpecMPI /\ [][NextMPI]_vars

InitSpecRSAKey == IdleMPI /\ InitRSAKey /\ IdlePkt /\ IdleEnums /\ IdleUtil
NextRSAKey ==
    \/ LoadKey
    \/ GenerateStart
    \/ GenerateNativeReturns
    \/ GenerateNativeThrows
    \/ GenerateDraw
    \/ GenerateFinish
    \/ ValidateParams
SpecRSAKey == InitSpecRSAKey /\ [][NextRSAKey]_vars

InitSpecRSACrypt == IdleMPI /\ InitRSACrypt /\ IdlePkt /\ IdleEnums /\ IdleUtil
NextRSACrypt == Sign \/ Verify \/ Encrypt \/ Decrypt \/ DecryptReceived
SpecRSACrypt == InitSpecRSACrypt /\ [][NextRSACrypt]_vars

InitSpecPkt == IdleMPI /\ IdleRSA /\ InitPkt /\ InitEnums /\ IdleUtil
NextPkt ==
    \/ Construct
    \/ Write
    \/ Read
    \/ ReadForeign
    \/ ReadByte
    \/ ReadPackets
    \/ ReadFulfils
SpecPkt == InitSpecPkt /\ [][NextPkt]_vars

InitSpecEnums == IdleMPI /\ IdleRSA /\ IdlePkt /\ InitEnums /\ IdleUtil
NextEnums == EnumRead \/ EnumWriteNumber \/ EnumWriteName
SpecEnums == InitSpecEnums /\ [][NextEnums]_vars

(***************************************************************************)
(* Properties of the MPI codec (SpecMPI).                                  *)
(***************************************************************************)
AllZero(bytes) == \A i \in 1..Len(bytes) : bytes[i] = 0

\* bit length of a byte, by its definition: the least k with x < 2^k
BitLen(x) == CHOOSE k \in 0..8 : x < Pow2(k) /\ (k = 0 \/ Pow2(k - 1) <= x)

RECURSIVE StripLeadingZeros(_)
StripLeadingZeros(bytes) ==
    IF Len(bytes) > 0 /\ Head(bytes) = 0
    THEN StripLeadingZeros(Tail(bytes)) ELSE bytes

\* the bit-length prefix and the payload a parser sees in its input
PrefixOf(bytes) == bytes[1] * 256 + bytes[2]
PayloadOf(bytes) == subarray(bytes, 2, 2 + (PrefixOf(bytes) + 7) \div 8)

\* C1 (as amended): zero-valued MPIs are rejected on write, not on read.
\* uint8ArrayToMPI raises 'Zero MPI' exactly for the byte arrays whose bytes
\* are all zero (the empty array included); readMPI never reports an error:
\* for a zero bit-length prefix it returns the empty array, for an all-zero
\* payload it returns those zero bytes.
C1_ZeroRejectedOnWriteOnly ==
    /\ mpiPc \in {"written", "read"} =>
          /\ AllZero(mpiBin) => mpiOut.err = "Zero MPI"
          /\ ~AllZero(mpiBin) => mpiOut.err = "none"
    /\ mpiPc = "parsed" =>
          /\ mpiRead.err = "none"
          /\ Len(mpiBin) >= 2 /\ PrefixOf(mpiBin) = 0 => mpiRead.val = <<>>
          /\ Len(mpiBin) >= 2 /\ AllZero(PayloadOf(mpiBin)) =>
                /\ AllZero(mpiRead.val)
                /\ mpiRead.val = PayloadOf(mpiBin)

\* C1 witness: readMPI has returned the empty array for an input whose
\* bit-length prefix is zero and which carries a further byte
C1_ZeroPrefixParsed ==
    /\ mpiPc = "parsed"
    /\ Len(mpiBin) = 3
    /\ PrefixOf(mpiBin) = 0
    /\ mpiRead.err = "none"
    /\ mpiRead.val = <<>>

\* C1 as stated: readMPI reports an error for every input whose prefix is
\* zero or whose payload bytes are all zero
C1_ZeroRejectedOnRead ==
    mpiPc = "parsed" /\ Len(mpiBin) >= 2
        /\ (PrefixOf(mpiBin) = 0 \/ AllZero(PayloadOf(mpiBin)))
    => mpiRead.err # "none"

\* C2 as stated: for every non-zero bin, uint8ArrayToMPI(bin) is a two-byte
\* big-endian bit length b followed by exactly ceil(b/8) payload bytes, the
\* payload being bin without its leading zero bytes, with a non-zero first
\* byte and b = 8 * (payloadLength - 1) + bitLength(first payload byte)
C2_MPIFormat ==
    mpiPc \in {"written", "read"} /\ ~AllZero(mpiBin) =>
        /\ mpiOut.err = "none"
        /\ Len(mpiOut.val) >= 3
        /\ LET b == PrefixOf(mpiOut.val)
               payload == subarray(mpiOut.val, 2, Len(mpiOut.val))
           IN  /\ Len(payload) = (b + 7) \div 8
               /\ payload = StripLeadingZeros(mpiBin)
               /\ payload[1] # 0
               /\ b = 8 * (Len(payload) - 1) + BitLen(payload[1])

\* C3 as stated: for every MPI m (non-zero, no leading zero byte),
\* readMPI(uint8ArrayToMPI(m)) = m, also when further bytes follow
C3_MPIRoundTrip ==
    mpiPc = "read" /\ Len(mpiBin) > 0 /\ mpiBin[1] # 0 =>
        mpiRead.err = "none" /\ mpiRead.val = mpiBin

(***************************************************************************)
(* Properties of rsa.validateParams and rsa.generate (SpecRSAKey).         *)
(***************************************************************************)
\* C4 as stated: validateParams returns true for every tuple that satisfies
\* p*q = n, p*u = 1 (mod q) and d*e = 1 modulo p-1 and q-1, for every
\* blinding value r it can draw
C4_ValidateAcceptsValid ==
    rsaPc = "validated" /\ KeyRelations(rsaKey) => rsaRes = BoolOk(TRUE)

\* C5 as stated: whenever validateParams returns true the tuple satisfies
\* p*q = n, p*u = 1 (mod q) and d*e = 1 modulo p-1 and q-1, whatever r
C5_ValidateRejectsInvalid ==
    rsaPc = "validated" /\ rsaRes = BoolOk(TRUE) => KeyRelations(rsaKey)

\* C8 as stated: every key returned by the big-integer path of
\* generate(bits, e), the path taken without WebCrypto, has p < q,
\* n = p*q with bitLength(n) = bits, u = p^-1 mod q and
\* d = e^-1 mod (p-1)(q-1); the retry loop is left only when the product
\* of the drawn primes has exactly `bits` bits; and validateParams accepts
\* the returned tuple
C8_GeneratedKey ==
    /\ rsaPc = "gen_exit" => bitLength(rsaKey.p * rsaKey.q) = rsaBits
    /\ rsaPc \in {"key", "validated"} /\ rsaBits > 0 /\ ~rsaWebCrypto =>
          /\ rsaKey.p < rsaKey.q
          /\ rsaKey.n = rsaKey.p * rsaKey.q
          /\ bitLength(rsaKey.n) = rsaBits
          /\ rsaKey.u < rsaKey.q
          /\ Congruent(rsaKey.p * rsaKey.u, 1, rsaKey.q)
          /\ rsaKey.d < (rsaKey.p - 1) * (rsaKey.q - 1)
          /\ Congruent(rsaKey.d * rsaKey.e, 1,
                       (rsaKey.p - 1) * (rsaKey.q - 1))
    /\ rsaPc = "validated" /\ rsaBits > 0 /\ ~rsaWebCrypto =>
          rsaRes = BoolOk(TRUE)

(***************************************************************************)
(* Properties of the RSA primitives (SpecRSACrypt).                        *)
(***************************************************************************)
\* C6 as stated: for every valid key, every m < n and every unblinder r in
\* [2, n), the blinded CRT computation on c = m^e mod n completes and
\* yields m, with the recombined value h*p + mp below n
C6_BlindedDecryptInverts ==
    rsaPc = "decrypted" =>
        /\ rsaRes.err = "none"
        /\ fromUint8Array(rsaRes.val) = rsaIn
        /\ rsaRes.crt < rsaKey.n

\* C7: for every valid key and every hashed value whose encoding m is below
\* n, bnVerify returns true on the signature s bnSign produced for the same
\* hashed value, and false for every other signature value s' < n and for
\* the same signature checked against another hashed value
C7_SignVerify ==
    rsaPc = "verified" /\ rsaOut.err = "none"
        /\ fromUint8Array(rsaArg.s) < rsaKey.n
    => /\ rsaRes.err = "none"
       /\ rsaArg.hashed = rsaIn => (rsaRes.val <=> rsaArg.s = rsaOut.val)
       /\ rsaArg.s = rsaOut.val => (rsaRes.val <=> rsaArg.hashed = rsaIn)

\* C7 witness: bnVerify has returned true on a signature that bnSign made
\* with a private exponent above 1 and that differs from the encoded digest
C7_VerifiedTrue ==
    /\ rsaPc = "verified"
    /\ rsaRes = BoolOk(TRUE)
    /\ rsaKey.d > 1 /\ rsaKey.e > 1
    /\ rsaArg.s = rsaOut.val
    /\ fromUint8Array(rsaOut.val) # rsaIn

(***************************************************************************)
(* Properties of the Compressed Data packet (SpecPkt).                     *)
(***************************************************************************)
\* C9 (as amended): the round trip holds for zip (1) and zlib (2): write()
\* emits the algorithm octet and the compressed bytes, and read() of them
\* yields the same algorithm and the same packet list.  For uncompressed (0,
\* the default preferredCompressionAlgorithm) and bzip2 (3), write() of a
\* packet that holds only a packet list raises
\* '<name> compression not supported'; a received packet of algorithm 0 is
\* read as the packet list its payload stores.
C9_RoundTripZipZlibOnly ==
    /\ pktPc = "written" /\ pktAlgo \in {1, 2} =>
          /\ pktWire.err = "none"
          /\ pktWire.val[1] = pktAlgo
          /\ pktCompressed.set
    /\ pktPc = "written" /\ pktRead.pc = "done" /\ pktAlgo \in {1, 2} =>
          /\ pktRead.err = "none"
          /\ pktRead.algorithm = pktAlgo
          /\ pktRead.packets = pktPackets
    /\ pktPc = "written" /\ pktAlgo = 0 =>
          /\ pktWire.err = "uncompressed compression not supported"
          /\ ~pktCompressed.set
    /\ pktPc = "written" /\ pktAlgo = 3 =>
          /\ pktWire.err = "bzip2 compression not supported"
          /\ ~pktCompressed.set
    /\ pktPc = "received" /\ pktRead.pc = "done" /\ pktRead.algorithm = 0
          /\ pktRead.err = "none" =>
          <<0>> \o packetListWrite(pktRead.packets.val) = pktWire.val
    /\ pktPc = "received" /\ pktRead.pc = "done" /\ pktRead.algorithm = 0
          /\ Len(pktWire.val) = 1 =>
          pktRead.err = "none"

\* C9 witness: a zlib packet with two packets in its list has been written
\* and read back with the same list
C9_ZlibReadBack ==
    /\ pktPc = "written"
    /\ pktRead.pc = "done"
    /\ pktAlgo = 2
    /\ Len(pktPackets.val) = 2
    /\ pktRead.err = "none"
    /\ pktRead.packets = pktPackets

\* C9 as stated: for every algorithm ID of the registry (0..3) write()
\* serializes the packet, and read() of the written bytes yields the same
\* algorithm and the same packet list
C9_RoundTripAllAlgorithms ==
    /\ pktPc = "written" /\ pktAlgo \in 0..3 =>
          pktWire.err = "none"
    /\ pktPc = "written" /\ pktRead.pc = "done" /\ pktAlgo \in 0..3 =>
          /\ pktRead.err = "none"
          /\ pktRead.algorithm = pktAlgo
          /\ pktRead.packets = pktPackets

(***************************************************************************)
(* Properties of the registries (SpecEnums).                               *)
(***************************************************************************)
\* C10 (as amended): no sequence of enums.read and enums.write calls adds,
\* removes or changes a name -> ID entry of a registry; the first enums.read
\* on a registry (also the one enums.write makes for a number) adds the
\* symbol-keyed byValue reverse index to it, which then stays as built.
C10_EntriesFixedIndexAdded ==
    /\ [](\A t \in EnumTypes :
             /\ regs[t].entries = enums[t]
             /\ regs[t].byValue.built =>
                   regs[t].byValue.map = byValueOf(enums[t], 1, {}))
    /\ [](enumCall.fn = "read" \/ (enumCall.fn = "write" /\ enumCall.num >= 0)
             => regs[enumCall.type].byValue.built)
    /\ [][\A t \in EnumTypes :
             regs[t].byValue.built => regs'[t].byValue = regs[t].byValue]_vars

\* C10 witness: enums.write with a number has run on a registry, which now
\* carries the byValue index
C10_IndexBuiltByWrite ==
    /\ enumCall.fn = "write"
    /\ enumCall.num >= 0
    /\ regs[enumCall.type].byValue.built
    /\ regs[enumCall.type].byValue.map # {}

\* C10 as stated: no call adds, removes or changes a property of a registry
\* object
C10_RegistriesReadOnly == regs = InitRegs

(***************************************************************************)
(* The registry tables (SpecEnumTable): enums.write with every declared    *)
(* name on every registry.                                                 *)
(***************************************************************************)
\* every property name declared in some registry
DeclaredNames ==
    UNION {{enums[t][i].name : i \in 1..Len(enums[t])} : t \in EnumTypes}

\* enums.write(type, name) for a name declared somewhere
EnumWriteDeclared ==
    /\ \E t \in EnumTypes, n \in DeclaredNames :
           LET r == enumsWriteName(regs, t, n)
           IN  /\ regs' = r.regs
               /\ enumRes' = r.res
               /\ enumCall' = [fn |-> "write", type |-> t, num |-> -1,
                               name |-> n]
    /\ UNCHANGED <<mpiVars, rsaVars, pktVars, utilVars>>

InitSpecEnumTable == IdleMPI /\ IdleRSA /\ IdlePkt /\ InitEnums /\ IdleUtil
NextEnumTable == EnumWriteDeclared
SpecEnumTable == InitSpecEnumTable /\ [][NextEnumTable]_vars

\* the tables of section 3 of the specification, as name / ID pairs
Section3 ==
    [publicKey |-> {<<"rsaEncryptSign", 1>>, <<"rsaEncrypt", 2>>,
                    <<"rsaSign", 3>>, <<"elgamal", 16>>, <<"dsa", 17>>,
                    <<"ecdh", 18>>, <<"ecdsa", 19>>, <<"eddsaLegacy", 22>>,
                    <<"x25519", 25>>, <<"x448", 26>>, <<"ed25519", 27>>,
                    <<"ed448", 28>>},
     symmetric |-> {<<"plaintext", 0>>, <<"idea", 1>>, <<"tripledes", 2>>,
                    <<"cast5", 3>>, <<"blowfish", 4>>, <<"aes128", 7>>,
                    <<"aes192", 8>>, <<"aes256", 9>>, <<"twofish", 10>>},
     hash |-> {<<"md5", 1>>, <<"sha1", 2>>, <<"ripemd", 3>>, <<"sha256", 8>>,
               <<"sha384", 9>>, <<"sha512", 10>>, <<"sha224", 11>>},
     compression |-> {<<"uncompressed", 0>>, <<"zip", 1>>, <<"zlib", 2>>,
                      <<"bzip2", 3>>},
     aead |-> {<<"eax", 1>>, <<"ocb", 2>>, <<"experimentalGCM", 100>>},
     s2k |-> {<<"simple", 0>>, <<"salted", 1>>, <<"iterated", 3>>,
              <<"gnu", 101>>}]

\* the name / ID pairs a registry object holds
PairsOf(reg) == {<<reg.entries[i].name, reg.entries[i].value>> :
                    i \in 1..Len(reg.entries)}

\* what publicKey declares beyond the table of section 3
PublicKeyExtras ==
    {<<"ed25519Legacy", 22>>, <<"eddsa", 22>>, <<"aedh", 23>>, <<"aedsa", 24>>}

\* enums.write has answered a listed name of a listed registry with its ID
WriteReturnsListedId ==
    enumCall.fn = "write" /\ enumCall.num = -1
        /\ enumCall.type \in DOMAIN Section3 =>
    \A pr \in Section3[enumCall.type] :
        pr[1] = enumCall.name => enumRes = EnumOk(pr[1], pr[2])

\* C11 (as amended): the registries hold every name and numeric ID of
\* section 3 and enums.write(type, name) returns that ID for each listed
\* name; symmetric, hash, compression, aead and s2k hold exactly the listed
\* entries, while publicKey holds four more: ed25519Legacy = 22, eddsa = 22,
\* aedh = 23 and aedsa = 24.
C11_ListedIdsAndExtras ==
    /\ \A t \in DOMAIN Section3 : Section3[t] \subseteq PairsOf(regs[t])
    /\ WriteReturnsListedId
    /\ \A t \in DOMAIN Section3 \ {"publicKey"} :
          PairsOf(regs[t]) = Section3[t]
    /\ PairsOf(regs.publicKey) = Section3.publicKey \cup PublicKeyExtras
    /\ PublicKeyExtras \cap Section3.publicKey = {}

\* C11 witness: enums.write(publicKey, 'eddsaLegacy') has returned 22
C11_WroteEddsaLegacy ==
    /\ enumCall.fn = "write"
    /\ enumCall.type = "publicKey"
    /\ enumCall.name = "eddsaLegacy"
    /\ enumRes = EnumOk("eddsaLegacy", 22)

\* C11 as stated: the registries hold exactly the IDs of section 3, and
\* enums.write(type, name) returns that ID for each listed name
C11_ExactlySection3 ==
    /\ \A t \in DOMAIN Section3 : PairsOf(regs[t]) = Section3[t]
    /\ WriteReturnsListedId

(***************************************************************************)
(* Specification of the curve component.                                   *)
(***************************************************************************)
InitSpecCurve ==
    IdleMPI /\ IdleRSA /\ IdlePkt /\ IdleEnums /\ InitCurve /\ IdleGcm /\ IdleDbl /\ IdleSel /\ IdleEol /\ IdleAny /\ IdleSum /\ IdleHkdf /\ IdleNs /\ IdleEc
NextCurve == NewCurve \/ GenKeyPairNative \/ GenKeyPairExternal
SpecCurve == InitSpecCurve /\ [][NextCurve]_vars

(***************************************************************************)
(* Properties of the curve table and of key generation (SpecCurve).        *)
(***************************************************************************)
\* the IDs a registry declares
IdsOf(t) == {enums[t][i].value : i \in 1..Len(enums[t])}

\* a DER OID: 0x06, the number of bytes that follow, the body
IsDerOid(oid) == Len(oid) >= 3 /\ oid[1] = 6 /\ oid[2] = Len(oid) - 2

\* C12 (as amended): every curve of the curve table carries a DER OID and a
\* preferred hash ID of the hash registry; every curve except ed25519 also
\* carries a preferred cipher ID of the symmetric registry.  A CurveWithOID
\* can be built for each of the nine names and has a defined oid and hash;
\* its cipher is defined except for ed25519, where it is undefined.
C12_CurveTableNoEd25519Cipher ==
    /\ curvePc \in {"built", "generated"} /\ curve.err = "none" =>
          /\ curve.name \in CurveNames
          /\ IsDerOid(curve.oid)
          /\ curve.hash \in IdsOf("hash")
          /\ curve.name # "ed25519" => curve.cipher \in IdsOf("symmetric")
          /\ curve.name = "ed25519" => curve.cipher = Undefined
    /\ curvePc \in {"built", "generated"} /\ curveArg.kind = "name"
          /\ curveArg.name \in CurveNames =>
              curve.err = "none" /\ curve.name = curveArg.name

\* C12 witness: a CurveWithOID for ed25519 has been built, with its 9-byte
\* OID body and no cipher
C12_Ed25519Built ==
    /\ curvePc = "built"
    /\ curveArg = NameArg("ed25519")
    /\ curve.name = "ed25519"
    /\ curve.oid[2] = 9
    /\ curve.cipher = Undefined

\* C12 as stated: a CurveWithOID built for any curve of the table has a DER
\* OID, a hash ID of the hash registry and a cipher ID of the symmetric
\* registry
C12_CurveTableComplete ==
    curvePc \in {"built", "generated"} /\ curve.err = "none" =>
        /\ IsDerOid(curve.oid)
        /\ curve.hash \in IdsOf("hash")
        /\ curve.cipher \in IdsOf("symmetric")

\* bit k of a byte
Bit(b, k) == (b \div Pow2(k)) % 2

\* C13: for every 32 random bytes, the privateKey returned for curve25519
\* has bit 7 of its first byte cleared and bit 6 set, the three low bits of
\* its last byte cleared and every other bit equal to the random input, and
\* the publicKey is 33 bytes starting with 0x40; an ed25519 publicKey is
\* likewise 33 bytes starting with 0x40
C13_Curve25519Clamping ==
    /\ curvePc = "generated" /\ keyPair.kind = "curve25519" =>
          /\ Len(keyPair.privateKey) = 32
          /\ Bit(keyPair.privateKey[1], 7) = 0
          /\ Bit(keyPair.privateKey[1], 6) = 1
          /\ \A k \in 0..5 :
                Bit(keyPair.privateKey[1], k) = Bit(curveRandom[1], k)
          /\ \A k \in 0..2 : Bit(keyPair.privateKey[32], k) = 0
          /\ \A k \in 3..7 :
                Bit(keyPair.privateKey[32], k) = Bit(curveRandom[32], k)
          /\ \A i \in 2..31 : keyPair.privateKey[i] = curveRandom[i]
          /\ Len(keyPair.publicKey) = 33
          /\ keyPair.publicKey[1] = 64
    /\ curvePc = "generated" /\ keyPair.kind = "ed25519" =>
          /\ Len(keyPair.publicKey) = 33
          /\ keyPair.publicKey[1] = 64

\* C13 witness: a curve25519 key pair has been generated from random bytes
\* whose first and last byte the clamping changes
C13_ClampedKeyGenerated ==
    /\ curvePc = "generated"
    /\ keyPair.kind = "curve25519"
    /\ curveRandom[1] = 255 /\ curveRandom[32] = 7
    /\ keyPair.privateKey[1] = 127 /\ keyPair.privateKey[32] = 0

(***************************************************************************)
(* Specifications of GCM.getNonce and util.double.                         *)
(***************************************************************************)
InitSpecGcm ==
    IdleMPI /\ IdleRSA /\ IdlePkt /\ IdleEnums /\ InitGcm /\ IdleCurve /\ IdleDbl /\ IdleSel /\ IdleEol /\ IdleAny /\ IdleSum /\ IdleHkdf /\ IdleNs /\ IdleEc
NextGcm == GetNonce
SpecGcm == InitSpecGcm /\ [][NextGcm]_vars

InitSpecDbl ==
    IdleMPI /\ IdleRSA /\ IdlePkt /\ IdleEnums /\ InitDbl /\ IdleCurve /\ IdleGcm /\ IdleSel /\ IdleEol /\ IdleAny /\ IdleSum /\ IdleHkdf /\ IdleNs /\ IdleEc
NextDbl == Double
SpecDbl == InitSpecDbl /\ [][NextDbl]_vars

(***************************************************************************)
(* C14: the nonce of a chunk.                                              *)
(***************************************************************************)
\* C14: the nonce returned by GCM.getNonce(iv, chunkIndex) has the length of
\* iv, its bytes 0..3 are those of iv, its byte 4 + i is iv[4 + i] XOR
\* chunkIndex[i], bit by bit, for i in 0..7, and iv is the same after the
\* call as before it
C14_NonceIsIvXorChunkIndex ==
    gcmPc = "done" =>
        /\ gcmRes.iv = gcmIv
        /\ Len(gcmRes.nonce) = Len(gcmIv)
        /\ \A i \in 0..3 : ByteAt(gcmRes.nonce, i) = ByteAt(gcmIv, i)
        /\ \A i \in 0..7 : \A k \in 0..7 :
               Bit(ByteAt(gcmRes.nonce, 4 + i), k) =
                   (Bit(ByteAt(gcmIv, 4 + i), k)
                        + Bit(ByteAt(gcmChunkIndex, i), k)) % 2

\* a nonce was derived that differs from its iv
C14_NonceDerived ==
    /\ gcmPc = "done"
    /\ gcmRes.nonce # gcmIv
    /\ \E i \in 0..7 : ByteAt(gcmChunkIndex, i) # 0

(***************************************************************************)
(* C20: doubling in GF(2^(8n)).                                            *)
(***************************************************************************)
\* bit n of a block, counted from the least significant bit of its last byte
BlockBit(S, n) ==
    IF n < 0 \/ n >= 8 * Len(S) THEN 0
    ELSE Bit(S[Len(S) - (n \div 8)], n % 8)

\* C20: util.double(S) returns a block of the length of S whose bit n is bit
\* n - 1 of S (bit 0 is zero), XORed in the last byte with the bits of 0x87
\* when the most significant bit of S is 1; S is the same after the call
C20_DoubleShiftsAndReduces ==
    dblPc = "done" =>
        /\ dblRes.data = dblData
        /\ Len(dblRes.result) = Len(dblData)
        /\ \A i \in 1..Len(dblData) : dblRes.result[i] \in 0..255
        /\ \A n \in 0..(8 * Len(dblData) - 1) :
               BlockBit(dblRes.result, n) =
                   (BlockBit(dblData, n - 1)
                        + (IF n < 8
                           THEN BlockBit(dblData, 8 * Len(dblData) - 1)
                                    * Bit(135, n)
                           ELSE 0)) % 2

\* a block with its most significant bit set was doubled and reduced
C20_ReducedBlockDoubled ==
    /\ dblPc = "done"
    /\ Len(dblData) = BlockLength
    /\ dblData[1] >= 128
    /\ dblRes.result # double_NoReduction(dblData).result

(***************************************************************************)
(* C18, C19: constant-time selection.                                      *)
(***************************************************************************)
InitSpecSel ==
    IdleMPI /\ IdleRSA /\ IdlePkt /\ IdleEnums /\ InitSel /\ IdleCurve /\ IdleGcm /\ IdleDbl /\ IdleEol /\ IdleAny /\ IdleSum /\ IdleHkdf /\ IdleNs /\ IdleEc
NextSel == SelectUint8Array \/ SelectUint8
SpecSel == InitSpecSel /\ [][NextSel]_vars

\* C18: for cond in {0, 1}, selectUint8Array(cond, a, b) returns exactly a
\* when cond is 1 and exactly b when cond is 0, whatever the two lengths, and
\* selectUint8(cond, a, b) returns the byte a when cond is 1 and b when it
\* is 0
C18_SelectReturnsChosen ==
    /\ selPc = "array" =>
           /\ selRuns[1].result = selA
           /\ selRuns[0].result = selB
    /\ selPc = "byte" =>
           /\ sel8[1] = selBytes[1]
           /\ sel8[0] = selBytes[2]

\* the shorter of two different arrays was selected
C18_ShorterSelected ==
    /\ selPc = "array"
    /\ Len(selA) < Len(selB)
    /\ selA # <<>>
    /\ selRuns[1].result = selA

\* C19: the executions of selectUint8Array on the same a and b with cond = 0
\* and with cond = 1 make the same reads and writes in the same order: one
\* read of a[i], one read of b[i] and one write of result[i] for each i below
\* max(len a, len b), whatever cond is
C19_SameAccessesForBothConds ==
    selPc = "array" =>
        /\ selRuns[0].trace = selRuns[1].trace
        /\ Len(selRuns[1].trace) = 3 * Max(Len(selA), Len(selB))
        /\ \A i \in 0..(Max(Len(selA), Len(selB)) - 1) :
               /\ selRuns[1].trace[3 * i + 1] = ReadA(i)
               /\ selRuns[1].trace[3 * i + 2] = ReadB(i)
               /\ selRuns[1].trace[3 * i + 3] = WriteResult(i)

\* two arrays of different lengths and contents went through both executions
C19_BothCondsExecuted ==
    /\ selPc = "array"
    /\ Len(selA) # Len(selB)
    /\ selRuns[0].result # selRuns[1].result
    /\ selRuns[0].trace # <<>>

(***************************************************************************)
(* C15: line endings of a stream.                                          *)
(***************************************************************************)
InitSpecEol ==
    IdleMPI /\ IdleRSA /\ IdlePkt /\ IdleEnums /\ InitEol /\ IdleCurve /\ IdleGcm /\ IdleDbl /\ IdleSel /\ IdleAny /\ IdleSum /\ IdleHkdf /\ IdleNs /\ IdleEc
NextEol == TransformChunk \/ FinishStream
SpecEol == InitSpecEol /\ [][NextEol]_vars

RECURSIVE CanonicalFrom(_, _)
\* s from position p on, with CR put before every LF that does not follow a CR
CanonicalFrom(s, p) ==
    IF p > Len(s) THEN <<>>
    ELSE (IF s[p] = LF /\ (p = 1 \/ s[p - 1] # CR) THEN <<CR, LF>>
          ELSE <<s[p]>>) \o CanonicalFrom(s, p + 1)

\* the positions of the input after which a chunk ends
RECURSIVE SplitPoints(_)
SplitPoints(splits) ==
    IF splits = <<>> THEN {}
    ELSE LET front == subarray(splits, 0, Len(splits) - 1)
             RECURSIVE Sum(_)
             Sum(q) == IF q = <<>> THEN 0 ELSE q[1] + Sum(Tail(q))
         IN  SplitPoints(front) \cup {Sum(splits)}

\* C15: whatever the chunks the input arrives in, the bytes emitted up to
\* the end of the stream are the input with every LF not immediately
\* preceded by CR replaced by CR LF and every other byte kept once and in
\* order; before the end, the bytes emitted and a CR that is held back are
\* that of the input read so far
C15_CanonicalWhateverTheChunks ==
    /\ eolPc = "closed" => eolOut = CanonicalFrom(eolIn, 1)
    /\ eolPc = "open" =>
           eolOut \o (IF carryOverCR THEN <<CR>> ELSE <<>>)
               = CanonicalFrom(eolIn, 1)

\* a stream ended that had an empty chunk and a chunk boundary between a CR
\* and the LF after it
C15_SplitBetweenCRAndLF ==
    /\ eolPc = "closed"
    /\ \E i \in 1..Len(eolSplits) : eolSplits[i] = 0
    /\ \E p \in SplitPoints(eolSplits) :
           /\ p >= 1 /\ p < Len(eolIn)
           /\ eolIn[p] = CR /\ eolIn[p + 1] = LF
    /\ eolOut = eolIn

(***************************************************************************)
(* C16, C17: the first fulfilment or the last rejection.                   *)
(***************************************************************************)
InitSpecAny ==
    IdleMPI /\ IdleRSA /\ IdlePkt /\ IdleEnums /\ InitAny /\ IdleCurve /\ IdleGcm /\ IdleDbl /\ IdleSel /\ IdleEol /\ IdleSum /\ IdleHkdf /\ IdleNs /\ IdleEc
NextAny ==
    FulfilInput \/ RejectInput \/ CallAnyPromise \/ RunWrapper
        \/ RejectAfterAll
SpecAny == InitSpecAny /\ [][NextAny]_vars

Inputs == 1..Len(apPromises)
FulfilledInputs == {i \in Inputs : apPromises[i].state = "fulfilled"}
RejectedInputs == {i \in Inputs : apPromises[i].state = "rejected"}
PendingInputs == {i \in Inputs : apPromises[i].state = "pending"}
\* input i was settled before anyPromise was called
SettledBeforeCall(i) ==
    apPromises[i].state # "pending" /\ (apPc = "before" \/ apTime[i] < apCalled)
\* anyPromise learns of i before it learns of j: inputs settled before the
\* call in the order of the array, then the others in the order they settle
ObservedBefore(i, j) ==
    \/ SettledBeforeCall(i) /\ SettledBeforeCall(j) /\ i < j
    \/ SettledBeforeCall(i) /\ ~SettledBeforeCall(j)
    \/ ~SettledBeforeCall(i) /\ ~SettledBeforeCall(j) /\ apTime[i] < apTime[j]

\* C16 as stated: whenever the returned promise is fulfilled, its value is
\* that of the input that fulfilled first in time; once the wrapper of a
\* fulfilled input has run the returned promise is fulfilled, and it is
\* fulfilled at the end when some input is
C16_FirstInTimeWins ==
    /\ apResult.state = "fulfilled" =>
           /\ apResult.val \in FulfilledInputs
           /\ \A j \in FulfilledInputs : apTime[apResult.val] <= apTime[j]
    /\ apRan \cap FulfilledInputs # {} => apResult.state = "fulfilled"
    /\ apPc = "finished" /\ FulfilledInputs # {} =>
           apResult.state = "fulfilled"

\* C16: whenever the returned promise is fulfilled, its value is that of the
\* fulfilled input anyPromise learns of first: the first in the array among
\* the inputs fulfilled before the call, else the first to fulfil in time
\* after the call; rejections, earlier ones included, do not change this.
\* Once the wrapper of a fulfilled input has run the returned promise is
\* fulfilled, and it is fulfilled, not rejected, at the end when some input
\* is fulfilled
C16_FirstObservedWins ==
    /\ apResult.state = "fulfilled" =>
           /\ apResult.val \in FulfilledInputs
           /\ \A j \in FulfilledInputs \ {apResult.val} :
                  ObservedBefore(apResult.val, j)
    /\ apRan \cap FulfilledInputs # {} => apResult.state = "fulfilled"
    /\ apPc = "finished" /\ FulfilledInputs # {} =>
           apResult.state = "fulfilled"

\* an input pending at the call was rejected, then another fulfilled and
\* won over one that fulfilled later; reject(exception) had no effect
C16_FulfilledAfterRejection ==
    /\ apPc = "finished"
    /\ apResult.state = "fulfilled"
    /\ \E i \in RejectedInputs : apCalled < apTime[i]
                                    /\ apTime[i] < apTime[apResult.val]
    /\ \E j \in FulfilledInputs : apTime[apResult.val] < apTime[j]
    /\ apException # 0

\* C17 as stated: the returned promise is rejected only when every input is
\* rejected, then with the error of the input rejected last in time, and it
\* is rejected at the end when every input is rejected; while some input is
\* pending and none is fulfilled it is pending
C17_LastInTimeRejects ==
    /\ apResult.state = "rejected" =>
           /\ RejectedInputs = Inputs
           /\ apRan = Inputs
           /\ Inputs # {} =>
                  /\ apResult.val \in Inputs
                  /\ \A j \in Inputs : apTime[j] <= apTime[apResult.val]
    /\ apPc = "finished" /\ RejectedInputs = Inputs =>
           apResult.state = "rejected"
    /\ PendingInputs # {} /\ FulfilledInputs = {} =>
           apResult.state = "pending"

\* C17: the returned promise is rejected only when every input is rejected
\* and the wrapper of every input has run, then with the error of the input
\* anyPromise learns of last: the last in the array when every input was
\* rejected before the call, else the last to be rejected in time (undefined
\* for an empty array); it is rejected at the end when every input is
\* rejected; while some input is pending and none is fulfilled it is pending
C17_LastObservedRejects ==
    /\ apResult.state = "rejected" =>
           /\ RejectedInputs = Inputs
           /\ apRan = Inputs
           /\ Inputs = {} => apResult.val = 0
           /\ Inputs # {} =>
                  /\ apResult.val \in Inputs
                  /\ \A j \in Inputs \ {apResult.val} :
                         ObservedBefore(j, apResult.val)
    /\ apPc = "finished" /\ RejectedInputs = Inputs =>
           apResult.state = "rejected"
    /\ PendingInputs # {} /\ FulfilledInputs = {} =>
           apResult.state = "pending"

\* every input was rejected, some before the call and some after it, and
\* the returned promise is rejected with the error of the last one
C17_RejectedWithLastError ==
    /\ apPc = "finished"
    /\ apResult.state = "rejected"
    /\ Cardinality(Inputs) >= 2
    /\ \E i \in Inputs : SettledBeforeCall(i)
    /\ \E i \in Inputs : ~SettledBeforeCall(i)
    /\ \A j \in Inputs : apTime[j] <= apTime[apResult.val]

(***************************************************************************)
(* C21: the 16-bit checksum.                                               *)
(***************************************************************************)
InitSpecSum ==
    IdleMPI /\ IdleRSA /\ IdlePkt /\ IdleEnums /\ InitSum /\ IdleCurve /\ IdleGcm /\ IdleDbl /\ IdleSel /\ IdleEol /\ IdleAny /\ IdleHkdf /\ IdleNs /\ IdleEc
NextSum == ChecksumAdd \/ ChecksumReturn
SpecSum == InitSpecSum /\ [][NextSum]_vars

RECURSIVE SumRange(_, _, _)
\* the sum of s[lo] .. s[hi]
SumRange(s, lo, hi) ==
    IF lo > hi THEN 0
    ELSE IF lo = hi THEN s[lo]
    ELSE SumRange(s, lo, (lo + hi) \div 2)
             + SumRange(s, (lo + hi) \div 2 + 1, hi)
SumOfBytes(s) == SumRange(s, 1, Len(s))

\* the two-byte big-endian encoding of v
BigEndian2(v) == <<v \div 256, v % 256>>

\* C21 as stated, and as the doc comment of writeChecksum states it: the
\* checksum is the two-byte big-endian encoding of the sum of all bytes
\* modulo 65535
C21_ChecksumMod65535 ==
    sumPc = "done" => sumOut = BigEndian2(SumOfBytes(sumText) % 65535)

\* what the code does: the checksum is the two-byte big-endian encoding of
\* the sum of all bytes modulo 65536, and inside the loop s is the sum of the bytes added so
\* far modulo 65536
C21_ChecksumMod65536 ==
    /\ sumPc = "done" => sumOut = BigEndian2(SumOfBytes(sumText) % 65536)
    /\ sumPc = "loop" => sumS = SumRange(sumText, 1, sumI) % 65536

\* the checksum of bytes whose sum does not fit in 16 bits was written
C21_SumWrapped ==
    /\ sumPc = "done"
    /\ SumOfBytes(sumText) >= 65536
    /\ sumOut # <<0, 0>>

(***************************************************************************)
(* C22: the name read for a value with several names.                      *)
(***************************************************************************)
\* the positions in a registry of the names that carry value e
PositionsOf(t, e) == {i \in 1..Len(enums[t]) : enums[t][i].value = e}
\* the name declared last for e
LastDeclared(t, e) ==
    enums[t][CHOOSE i \in PositionsOf(t, e) :
                 \A j \in PositionsOf(t, e) : j <= i].name

\* C22: after whatever calls of enums.read and enums.write on any registry,
\* enums.read(type, value) returns the name declared last in the registry
\* among those that carry the value, 'eddsa' for public-key ID 22, and
\* throws when no name carries it
C22_ReadReturnsLastDeclared ==
    enumCall.fn = "read" =>
        /\ PositionsOf(enumCall.type, enumCall.num) # {} =>
               /\ enumRes.err = "none"
               /\ enumRes.name = LastDeclared(enumCall.type, enumCall.num)
        /\ PositionsOf(enumCall.type, enumCall.num) = {} =>
               enumRes.err = "Invalid enum value."
        /\ enumCall.type = "publicKey" /\ enumCall.num = 22 =>
               enumRes.name = "eddsa"

\* 22 was read from the public-key registry after its index and that of
\* another registry had been built by earlier calls
C22_Read22AfterOtherCalls ==
    /\ enumCall = [fn |-> "read", type |-> "publicKey", num |-> 22,
                   name |-> ""]
    /\ enumRes.name = "eddsa"
    /\ Cardinality(PositionsOf("publicKey", 22)) = 3
    /\ regs["hash"].byValue.built
    /\ regs["s2k"].byValue.built

(***************************************************************************)
(* C26: HKDF and the hashes WebCrypto has no name for.                     *)
(***************************************************************************)
InitSpecHkdf ==
    /\ IdleMPI /\ IdleRSA /\ IdlePkt
    /\ regs \in HkdfRegs /\ enumCall = NoCall /\ enumRes = NoEnumRes
    /\ InitHkdf /\ IdleCurve /\ IdleGcm /\ IdleDbl /\ IdleSel /\ IdleEol /\ IdleAny /\ IdleSum /\ IdleNs /\ IdleEc
NextHkdf ==
    \/ HkdfStart
    \/ HkdfDeriveBits
    \/ HkdfImportKeyRejects
    \/ HkdfReturn
    \/ HkdfDeriveBitsRejects
SpecHkdf == InitSpecHkdf /\ [][NextHkdf]_vars

\* the IDs of enums.webHash
WebHashIds == {2, 8, 9, 10}

\* C26: once HKDF was called with a hash algorithm ID that is not in
\* enums.webHash, it has failed with 'Hash algo not supported with HKDF' and
\* no WebCrypto call was made
C26_UnsupportedHashMessage ==
    hkdfPc # "init" /\ hkdfAlgo \notin WebHashIds =>
        /\ hkdfPc = "failed"
        /\ hkdfRes.err = "Hash algo not supported with HKDF"
        /\ webCalls = <<>>

\* what the code does for such an ID: it fails with the error of enums.read
\* and makes no WebCrypto call
C26_UnsupportedHashFailsInRead ==
    hkdfPc # "init" /\ hkdfAlgo \notin WebHashIds =>
        /\ hkdfPc = "failed"
        /\ hkdfRes.err = "Invalid enum value."
        /\ webCalls = <<>>

(***************************************************************************)
(* C25: operands not below the modulus.                                    *)
(***************************************************************************)
\* C25: bnSign, bnEncrypt, bnVerify and bnDecrypt end in an error, not in a
\* value, when the encoded digest, the padded message, the signature or the
\* ciphertext is greater than or equal to n (bnVerify does not answer
\* false); when the operand is below n, bnSign and bnEncrypt return exactly
\* byteLength(n) bytes
C25_OperandNotBelowModulusRaises ==
    /\ rsaPc \in {"signed", "encrypted"} =>
           IF rsaIn >= rsaKey.n
           THEN /\ rsaOut.err = "Message size cannot exceed modulus size"
                /\ rsaOut.val = <<>>
           ELSE /\ rsaOut.err = "none"
                /\ Len(rsaOut.val) = (IF rsaKey.n < 256 THEN 1 ELSE 2)
    /\ rsaPc = "verified" /\ fromUint8Array(rsaArg.s) >= rsaKey.n =>
           rsaRes.err = "Signature size cannot exceed modulus size"
    /\ rsaPc = "received" /\ rsaIn >= rsaKey.n =>
           /\ rsaRes.err = "Data too large."
           /\ rsaRes.val = <<>>

\* a signature of two bytes was made under a two-byte modulus, and the
\* verification of a signature equal to the modulus raised an error
C25_VerifyRaisedOnModulus ==
    /\ rsaPc = "verified"
    /\ rsaKey.n >= 256
    /\ Len(rsaOut.val) = 2
    /\ fromUint8Array(rsaArg.s) = rsaKey.n
    /\ rsaRes.err = "Signature size cannot exceed modulus size"

(***************************************************************************)
(* C24: rsa.sign and rsa.verify between WebCrypto and big integers.        *)
(***************************************************************************)
InitSpecNs ==
    IdleMPI /\ IdleRSA /\ IdlePkt /\ IdleEnums /\ InitNs /\ IdleCurve /\ IdleGcm /\ IdleDbl /\ IdleSel /\ IdleEol /\ IdleAny /\ IdleSum /\ IdleHkdf /\ IdleEc
NextNs == RsaCall \/ NativeReturns \/ NativeThrows \/ BnReturns
SpecNs == InitSpecNs /\ [][NextNs]_vars

\* the hash IDs that have a WebCrypto name
WebCryptoHashIds == {2, 8, 9, 10}
\* "web" or "bn" is among the paths run
Ran(path) == \E i \in 1..Len(nsPaths) : nsPaths[i] = path

\* C24: the native path is run only when data is present and not a stream;
\* after any error on it, thrown by the native operation or by enums.read
\* for a hash ID without a WebCrypto name, the call returns what bnSign or
\* bnVerify returns on hashed; a native verification answering false is
\* returned as false and bnVerify is not run
C24_NativeOnlyForBytesErrorsFallBack ==
    /\ (Ran("web") \/ nsRes.by = "web" \/ nsErr # "none") =>
           nsCall.data = "bytes" /\ nsCall.web
    /\ nsPc = "done" /\ nsCall.data # "bytes" =>
           nsPaths = <<"bn">> /\ nsRes.out = bnOutcome(nsCall)
    /\ nsPc = "done" /\ nsErr # "none" =>
           /\ nsRes.by = "bn"
           /\ nsRes.out = (IF nsCall.op = "sign"
                           THEN bnSign(nsCall.hashAlgo, nativeKey.n,
                                       nativeKey.d, nsCall.hashed)
                           ELSE bnVerify(nsCall.hashAlgo, nsCall.s,
                                         nativeKey.n, nativeKey.e,
                                         nsCall.hashed))
    /\ nsPc = "done" /\ attemptsNative(nsCall.data, nsCall.web)
           /\ nsCall.hashAlgo \notin WebCryptoHashIds =>
           nsErr = "Invalid enum value." /\ nsRes.by = "bn"
    /\ nsPc = "done" /\ nsRes.by = "web" =>
           ~Ran("bn") /\ nsErr = "none"

\* a native verification answered false for a signature that bnVerify
\* accepts, and false was returned
C24_NativeFalseReturned ==
    /\ nsPc = "done"
    /\ nsCall.op = "verify"
    /\ nsRes = [by |-> "web", out |-> BoolOk(FALSE)]
    /\ bnOutcome(nsCall) = BoolOk(TRUE)
    /\ nsPaths = <<"web">>

(***************************************************************************)
(* C23: ecdsa.sign and ecdsa.verify and the errors of the native path.     *)
(***************************************************************************)
InitSpecEc ==
    IdleMPI /\ IdleRSA /\ IdlePkt /\ IdleEnums /\ InitEc /\ IdleCurve /\ IdleGcm /\ IdleDbl /\ IdleSel /\ IdleEol /\ IdleAny /\ IdleSum /\ IdleHkdf /\ IdleNs
NextEc == EcdsaCall \/ EcdsaNativeReturns \/ EcdsaNativeThrows \/ EllipticReturns
SpecEc == InitSpecEc /\ [][NextEc]_vars

\* the elliptic library, or the native operation, is among the paths run
EcRan(path) == \E i \in 1..Len(ecPaths) : ecPaths[i] = path
\* the errors related to key integrity
IntegrityErrors == {"DataError", "OperationError"}

\* what C23 says of errors thrown on and of the native path
C23_ThrownOnAndNativePath ==
    /\ EcRan("web") =>
           /\ ecCall.message = "bytes"
           /\ ecCall.web
           /\ ecCall.curve \in {"p256", "p384", "p521"}
    /\ ecPc = "done" /\ ecErr \in IntegrityErrors /\ ecCall.curve # "p521" =>
           /\ ecRes = EcOutcome("thrown", "", "", ecErr)
           /\ ~EcRan("elliptic")
    /\ ecRes.by = "thrown" =>
           ecErr \in IntegrityErrors /\ ecCall.curve # "p521"
    /\ ecPc = "done" /\ ecErr # "none"
           /\ (ecErr \notin IntegrityErrors \/ ecCall.curve = "p521") =>
           ecRes.by = "elliptic" /\ ecRes.err = "none"

\* C23 as stated: an integrity error of the native operation on a web curve
\* other than p521 is thrown on and the elliptic library is not run; after
\* any other error, or on p521, the outcome is that of the elliptic library
\* on the hashed value; without a message given as bytes the native path is
\* not run
C23_FallbackOnHashed ==
    /\ C23_ThrownOnAndNativePath
    /\ ecRes.by = "elliptic" => ecRes.on = "hashed"

\* C23: as stated, but the elliptic library verifies the message itself, not
\* the hashed value, when verify is called without hashAlgo
C23_FallbackOnDigest ==
    /\ C23_ThrownOnAndNativePath
    /\ ecRes.by = "elliptic" =>
           ecRes.on = (IF ecCall.op = "verify" /\ ecCall.hashAlgo = Undefined
                       THEN "message" ELSE "hashed")

\* on p521 the native signing threw a DataError and the elliptic library
\* signed the hashed value
C23_P521FellBack ==
    /\ ecPc = "done"
    /\ ecCall.curve = "p521" /\ ecCall.op = "sign"
    /\ ecErr = "DataError"
    /\ ecPaths = <<"web", "elliptic">>
    /\ ecRes = EcOutcome("elliptic", "hashed", "signature", "none")

=============================================================================
